---- MODULE Spec2Model ----
(***************************************************************************)
(* Model of the coverage/quality assessor and the iterative improvement    *)
(* loop of the autonomous testing framework (src/src/agents.py,            *)
(* src/src/framework.py, src/src/models.py, src/src/cli.py).               *)
(*                                                                         *)
(* Encoding conventions                                                    *)
(*  - The metrics that are quotients of two integers are kept as the pair  *)
(*    [num, den] with den > 0. The judge's scores, the overall score and   *)
(*    the coverage delta of the report are IEEE doubles, computed with     *)
(*    round-to-nearest-even as Python does; the decimal text of a score is *)
(*    an integer in thousandths (the text 7.0 is 7000). sum() of floats is *)
(*    the loop of the interpreter a run is on: compensated from CPython    *)
(*    3.12 on, left to right before (setup.py allows 3.11 and later).      *)
(*  - A file is [name, content]; any write of a file can fail with an      *)
(*    OSError, which leaves the file as open(name, 'w') and the part of    *)
(*    the write that was done left it; pc = "raised" is the state after    *)
(*    the exception left _improve_tests_iteratively or run_full_audit.     *)
(*  - Text returned by the oracle is a sequence of tokens. A token stands  *)
(*    for exactly its characters (Chars), also a word cut short (patc,     *)
(*    asser, ...); substrings are counted in the characters of the text,   *)
(*    so a match may straddle tokens.                                      *)
(*  - Optional[str] None is the string None; an absent source_code is      *)
(*    NoneCode.                                                            *)
(***************************************************************************)
EXTENDS Integers, Sequences, FiniteSets, TLC

VARIABLES
    code_units,        \* TestingFramework.code_units (list of CodeUnit)
    test_cases,        \* TestingFramework.test_cases (the working test set, a list)
    generated_tests,   \* TestingFramework.generated_tests
    test_files,        \* files of the tests directory written by _save_test_case
    metrics,           \* result of the last assess_quality call (<<>> when none)
    pc,                \* position of the control flow
    max_iterations,    \* argument of _improve_tests_iteratively
    iteration,         \* loop variable of `for iteration in range(max_iterations)`
    target_units,      \* list of target names of the current iteration
    idx,               \* position in target_units[:5] (1-based)
    improvements_made, \* flag of the current iteration
    new_tests,         \* candidates of the last generate_tests call not yet judged
    judgment,          \* the loop's local `judgment` while it is live (<<>> otherwise)
    compensated,       \* TRUE when the interpreter's sum() of floats is compensated
                       \* (CPython 3.12 and later), FALSE when it adds left to right
    events,            \* history: outcome of each target handled in this iteration
    started,           \* history: number of iterations whose body was entered
    improved,          \* history: number of iterations that accepted a candidate
    gen_calls,         \* history: number of generate_tests calls of this loop run
    judge_calls,       \* history: number of judge_test calls of this loop run
    oracle,            \* history: the oracle's answer to the last call of the loop
    stage,             \* position in run_full_audit ("idle" outside of it)
    audit_args,        \* arguments of the run_full_audit call (<<>> outside of it)
    before_metrics,    \* TestingFramework.before_metrics (<<>> is None)
    after_metrics,     \* TestingFramework.after_metrics (<<>> is None)
    before_mutation,   \* TestingFramework.before_mutation (<<>> is None)
    after_mutation,    \* TestingFramework.after_mutation (<<>> is None)
    audit_report,      \* the AuditReport run_full_audit returns (<<>> before)
    reports,           \* files of the reports directory written by _save_audit_report
    assessed,          \* history: the test list each assess_quality call of the audit saw
    local_code_units,  \* local code_units of the CLI command generate (<<>> outside of it)
    local_test_cases,  \* local test_cases of the CLI command generate
    uncovered_units,   \* local uncovered_units of the CLI command generate
    generated_count    \* local generated_count of the CLI command generate

vars == <<code_units, test_cases, generated_tests, test_files, metrics, pc,
          max_iterations, iteration, target_units, idx, improvements_made,
          new_tests, judgment, compensated, events, started, improved, gen_calls,
          judge_calls, oracle, stage, audit_args, before_metrics,
          after_metrics, before_mutation, after_mutation, audit_report,
          reports, assessed, local_code_units, local_test_cases,
          uncovered_units, generated_count>>

auditVars == <<stage, audit_args, before_metrics, after_metrics,
               before_mutation, after_mutation, audit_report, reports,
               assessed>>

cliVars == <<local_code_units, local_test_cases, uncovered_units,
             generated_count>>

----------------------------------------------------------------------------
(* Bounds of the model *)

MaxUnits == 2
MaxTests == 2
MaxInitTests == 1
MaxIter == 2
MaxAuditIter == 1

(* Program constants *)

TargetCap == 5
SampleCap == 10
QualityThreshold == 7000
NeutralScore == 5000
MaxClarity == 10000
ComplexityLimit == 5
MinAssertions == 3
MinMocks == 1

None == "None"
NoneCode == <<None>>

----------------------------------------------------------------------------
(* Generic helpers *)

Min(a, b) == IF a < b THEN a ELSE b

Max(a, b) == IF a > b THEN a ELSE b

Range(s) == {s[i] : i \in 1..Len(s)}

RECURSIVE SumSeq(_)
SumSeq(s) == IF s = <<>> THEN 0 ELSE Head(s) + SumSeq(Tail(s))

SeqsUpTo(S, n) == UNION {[1..k -> S] : k \in 0..n}

(* Lists without repetition: a catalog holds a unit once. *)
DistinctSeqsUpTo(S, n) ==
    {s \in SeqsUpTo(S, n) : \A i, j \in 1..Len(s) : i # j => s[i] # s[j]}

RECURSIVE UnionAll(_)
UnionAll(s) == IF s = <<>> THEN {} ELSE Head(s) \cup UnionAll(Tail(s))

(* All orders in which a Python set can be iterated: list(a_set). *)
ListOf(S) == {s \in [1..Cardinality(S) -> S] : Range(s) = S}

(* A float that is the quotient of two integers is kept as the pair of
   the integers, [num, den] for num / den; where a result of the code
   depends on the rounding of float arithmetic, the float is computed from
   the pair by the operators of the next section. *)
Rat(n, d) == [num |-> n, den |-> d]

Zero == Rat(0, 1)

RatLe(a, b) == a.num * b.den <= b.num * a.den

RatEq(a, b) == a.num * b.den = b.num * a.den

----------------------------------------------------------------------------
(* Python floats (IEEE 754 binary64, round to nearest, ties to even)       *)
(*                                                                         *)
(* A natural number is a sequence of limbs (digits in base 2^13), most     *)
(* significant limb first, <<>> for 0. A float is [sign, m, exp] and       *)
(* stands for sign * m * 2^exp, where the significand m has exactly 53     *)
(* bits (five limbs, the first being 1); 0.0 is [1, <<>>, 0]. Infinities,  *)
(* NaN and subnormals do not occur for the values of the program.          *)

Limb == 2 ^ 13

RECURSIVE NatLimbs(_)
NatLimbs(n) ==
    IF n = 0 THEN <<>> ELSE Append(NatLimbs(n \div Limb), n % Limb)

RECURSIVE LimbsNat(_)
LimbsNat(a) ==
    IF a = <<>> THEN 0
    ELSE Limb * LimbsNat(SubSeq(a, 1, Len(a) - 1)) + a[Len(a)]

Zeros(k) == [i \in 1..k |-> 0]

Trim(a) ==
    IF \A i \in 1..Len(a) : a[i] = 0 THEN <<>>
    ELSE SubSeq(a, CHOOSE i \in 1..Len(a) :
                       a[i] # 0 /\ \A j \in 1..(i - 1) : a[j] = 0,
                Len(a))

PadTo(a, n) == Zeros(n - Len(a)) \o a

RECURSIVE BitLenOfInt(_)
BitLenOfInt(n) == IF n = 0 THEN 0 ELSE 1 + BitLenOfInt(n \div 2)

(* The number of bits of a number without leading zeros. *)
BitLen(a) ==
    IF a = <<>> THEN 0 ELSE 13 * (Len(a) - 1) + BitLenOfInt(a[1])

(* a < b for numbers without leading zeros. *)
LimbsLess(a, b) ==
    \/ Len(a) < Len(b)
    \/ /\ Len(a) = Len(b)
       /\ \E i \in 1..Len(a) :
              a[i] < b[i] /\ \A j \in 1..(i - 1) : a[j] = b[j]

(* a + b + c for a and b of one length; the result has one limb more. *)
RECURSIVE AddCarry(_, _, _)
AddCarry(a, b, c) ==
    IF a = <<>> THEN <<c>>
    ELSE LET n == Len(a)
             t == a[n] + b[n] + c
         IN  Append(AddCarry(SubSeq(a, 1, n - 1), SubSeq(b, 1, n - 1),
                             t \div Limb),
                    t % Limb)

LimbsAdd(a, b) ==
    LET n == Max(Len(a), Len(b))
    IN  Trim(AddCarry(PadTo(a, n), PadTo(b, n), 0))

(* a - b - c for a and b of one length, a >= b + c. *)
RECURSIVE SubBorrow(_, _, _)
SubBorrow(a, b, c) ==
    IF a = <<>> THEN <<>>
    ELSE LET n == Len(a)
             t == a[n] - b[n] - c
         IN  Append(SubBorrow(SubSeq(a, 1, n - 1), SubSeq(b, 1, n - 1),
                              IF t < 0 THEN 1 ELSE 0),
                    (t + Limb) % Limb)

LimbsSub(a, b) == Trim(SubBorrow(a, PadTo(b, Len(a)), 0))

(* a * f + c for small natural numbers f and c. *)
RECURSIVE MulCarry(_, _, _)
MulCarry(a, f, c) ==
    IF a = <<>> THEN NatLimbs(c)
    ELSE LET n == Len(a)
             t == a[n] * f + c
         IN  Append(MulCarry(SubSeq(a, 1, n - 1), f, t \div Limb), t % Limb)

MulSmall(a, f) == Trim(MulCarry(a, f, 0))

(* Quotient (with leading zeros) and remainder of a by a small d > 0. *)
RECURSIVE DivSmall(_, _)
DivSmall(a, d) ==
    IF a = <<>> THEN [q |-> <<>>, r |-> 0]
    ELSE LET p == DivSmall(SubSeq(a, 1, Len(a) - 1), d)
             t == Limb * p.r + a[Len(a)]
         IN  [q |-> Append(p.q, t \div d), r |-> t % d]

(* a * 2^k *)
ShiftLeft(a, k) ==
    IF a = <<>> THEN <<>>
    ELSE MulSmall(a, 2 ^ (k % 13)) \o Zeros(k \div 13)

(* a \div 2^k, and whether bits that are set were shifted out. *)
ShiftRight(a, k) ==
    LET drop == Min(k \div 13, Len(a))
        kept == SubSeq(a, 1, Len(a) - drop)
        d == DivSmall(kept, 2 ^ (k % 13))
    IN  [q |-> Trim(d.q),
         lost |-> d.r # 0 \/ \E i \in (Len(a) - drop + 1)..Len(a) : a[i] # 0]

FloatZero == [sign |-> 1, m |-> <<>>, exp |-> 0]

IsZero(x) == x.m = <<>>

(* The float nearest to sign * (n + f) * 2^e, where n is a number without
   leading zeros and 0 <= f < 1 with f > 0 iff inexact; n has more than 54
   bits when inexact. *)
RoundToFloat(sign, n, inexact, e) ==
    IF n = <<>> THEN FloatZero
    ELSE IF BitLen(n) <= 53
    THEN [sign |-> sign, m |-> ShiftLeft(n, 53 - BitLen(n)),
          exp |-> e - (53 - BitLen(n))]
    ELSE LET d == BitLen(n) - 53
             s == ShiftRight(n, d - 1)
             h == DivSmall(s.q, 2)
             top == Trim(h.q)
             up == h.r = 1 /\ (inexact \/ s.lost \/ top[Len(top)] % 2 = 1)
             next == LimbsAdd(top, <<1>>)
         IN  IF ~up THEN [sign |-> sign, m |-> top, exp |-> e + d]
             ELSE IF BitLen(next) = 54
             THEN [sign |-> sign, m |-> Trim(DivSmall(next, 2).q),
                   exp |-> e + d + 1]
             ELSE [sign |-> sign, m |-> next, exp |-> e + d]

(* p / q for integers p and q > 0 (true division of two ints, and the
   float of the decimal text of p/1000). *)
FloatOfRatio(p, q) ==
    LET sign == IF p < 0 THEN 0 - 1 ELSE 1
        a == IF p < 0 THEN 0 - p ELSE p
        k == 55 + BitLenOfInt(q)
        d == DivSmall(ShiftLeft(NatLimbs(a), k), q)
    IN  IF a = 0 THEN FloatZero
        ELSE RoundToFloat(sign, Trim(d.q), d.r # 0, 0 - k)

(* The float of a decimal number given in thousandths. *)
FloatOfDecimal(v) == FloatOfRatio(v, 1000)

FAdd(x, y) ==
    IF IsZero(x) THEN y
    ELSE IF IsZero(y) THEN x
    ELSE LET e == Min(x.exp, y.exp)
             a == ShiftLeft(x.m, x.exp - e)
             b == ShiftLeft(y.m, y.exp - e)
         IN  IF x.sign = y.sign
             THEN RoundToFloat(x.sign, LimbsAdd(a, b), FALSE, e)
             ELSE IF a = b THEN FloatZero
             ELSE IF LimbsLess(a, b)
             THEN RoundToFloat(y.sign, LimbsSub(b, a), FALSE, e)
             ELSE RoundToFloat(x.sign, LimbsSub(a, b), FALSE, e)

FSub(x, y) ==
    FAdd(x, IF IsZero(y) THEN y ELSE [y EXCEPT !.sign = 0 - y.sign])

(* x * c for a small natural number c. *)
FMulSmall(x, c) ==
    IF IsZero(x) \/ c = 0 THEN FloatZero
    ELSE RoundToFloat(x.sign, MulSmall(x.m, c), FALSE, x.exp)

(* x / n for a small natural number n > 0. *)
FDivSmall(x, n) ==
    IF IsZero(x) THEN FloatZero
    ELSE LET k == 3 + BitLenOfInt(n)
             d == DivSmall(ShiftLeft(x.m, k), n)
         IN  RoundToFloat(x.sign, Trim(d.q), d.r # 0, x.exp - k)

(* |x| < |y| *)
MagLess(x, y) ==
    /\ ~IsZero(y)
    /\ \/ IsZero(x)
       \/ x.exp < y.exp
       \/ (x.exp = y.exp /\ LimbsLess(x.m, y.m))

FLt(x, y) ==
    IF x.sign # y.sign THEN x.sign < y.sign
    ELSE IF x.sign = 1 THEN MagLess(x, y)
    ELSE MagLess(y, x)

(* The float loop of sum() in CPython 3.12 and later (Neumaier's
   compensated summation): f is the running sum, c the running
   compensation, which is added at the end when it is not zero. *)
RECURSIVE CompensatedSum(_, _, _)
CompensatedSum(values, f, c) ==
    IF values = <<>> THEN (IF IsZero(c) THEN f ELSE FAdd(f, c))
    ELSE LET x == Head(values)
             t == FAdd(f, x)
         IN  CompensatedSum(Tail(values), t,
                 FAdd(c, IF ~MagLess(f, x) THEN FAdd(FSub(f, t), x)
                         ELSE FAdd(FSub(x, t), f)))

(* The float loop of sum() before CPython 3.12: f + v from left to right. *)
RECURSIVE PlainSum(_, _)
PlainSum(values, f) ==
    IF values = <<>> THEN f ELSE PlainSum(Tail(values), FAdd(f, Head(values)))

(* sum(values) of floats: 0 + v1 exactly, then the float loop of the
   interpreter the program runs on (setup.py allows 3.11 and later). *)
FSum(values, compensated_sum) ==
    IF values = <<>> THEN FloatZero
    ELSE IF compensated_sum
    THEN CompensatedSum(Tail(values), Head(values), FloatZero)
    ELSE PlainSum(Tail(values), Head(values))

(* The number the format {:.1f} prints for x, in tenths: the tenth
   nearest to the exact value of x, a tie going to the even tenth. *)
FormatTenths(x) ==
    IF IsZero(x) THEN 0
    ELSE LET n == MulSmall(x.m, 10)
         IN  IF x.exp >= 0 THEN x.sign * LimbsNat(ShiftLeft(n, x.exp))
             ELSE LET s == ShiftRight(n, (0 - x.exp) - 1)
                      h == DivSmall(s.q, 2)
                      whole == LimbsNat(Trim(h.q))
                      up == h.r = 1 /\ (s.lost \/ whole % 2 = 1)
                  IN  x.sign * (whole + (IF up THEN 1 ELSE 0))

----------------------------------------------------------------------------
(* Data model: src/src/models.py *)

UnitNames == {"a", "b", "c", "d", "e"}
StaleNames == {"z"}
AllNames == UnitNames \cup StaleNames

CodeUnit(n, f, l) == [name |-> n, file_path |-> f, line_start |-> l]

(* Two units share the name a (the same function name in two files). *)
CodeUnits ==
    {CodeUnit("a", "src/m1.py", 1), CodeUnit("b", "src/m1.py", 4),
     CodeUnit("a", "src/m2.py", 1)}

(* A list map_codebase can return: the units of one file stand together,
   and a unit on the first line of its file is the first of them (ast.walk
   gives the statements of the module body, in order, before anything
   nested). *)
WalkOrder(units) ==
    /\ \A i, j, k \in 1..Len(units) :
           (i < j /\ j < k /\ units[i].file_path = units[k].file_path)
               => units[j].file_path = units[i].file_path
    /\ \A i, j \in 1..Len(units) :
           (i < j /\ units[i].file_path = units[j].file_path)
               => units[j].line_start > 1

TestCase(n, t, f, ls, le, tu, a, m, c, d, src) ==
    [name |-> n, type |-> t, file_path |-> f, line_start |-> ls,
     line_end |-> le, tested_units |-> tu, assertions |-> a, mocks |-> m,
     complexity |-> c, docstring |-> d, source_code |-> src]

TestKey(t) == <<t.name, t.file_path, t.line_start>>

----------------------------------------------------------------------------
(* TestAssessorAgent: src/src/agents.py *)

(* One answer of the oracle to a clarity prompt: the call raises, the text
   is not a number, or the text is the number val (in thousandths). *)
ClarityAnswers ==
    {[kind |-> "raise", val |-> 0], [kind |-> "number", val |-> 0 - 1000],
     [kind |-> "number", val |-> 8000], [kind |-> "number", val |-> 12000]}

Truthy(code) == code # NoneCode /\ code # <<>>

ClarityOf(test, answer) ==
    IF Truthy(test.source_code)
    THEN IF answer.kind = "number"
         THEN Min(Max(answer.val, 0), MaxClarity)
         ELSE NeutralScore
    ELSE 0

RECURSIVE ClarityTotal(_, _)
ClarityTotal(tests, answers) ==
    IF tests = <<>> THEN 0
    ELSE ClarityOf(Head(tests), Head(answers))
         + ClarityTotal(Tail(tests), Tail(answers))

_assess_test_clarity(tests, answers) ==
    IF tests = <<>> THEN Zero
    ELSE LET n == Min(Len(tests), SampleCap)
         IN  Rat(ClarityTotal(SubSeq(tests, 1, n), SubSeq(answers, 1, n)), n)

(* Mutant: a missing docstring is not an issue. *)
Issues_DocstringIgnored(test) ==
    (IF test.assertions = 0 THEN <<"no assertions">> ELSE <<>>)
    \o (IF test.complexity > ComplexityLimit THEN <<"high complexity">> ELSE <<>>)
    \o (IF test.mocks = 0 /\ test.assertions > 0 THEN <<"no mocking">> ELSE <<>>)

Issues(test) ==
    (IF test.assertions = 0 THEN <<"no assertions">> ELSE <<>>)
    \o (IF test.complexity > ComplexityLimit THEN <<"high complexity">> ELSE <<>>)
    \o (IF test.docstring = None \/ test.docstring = ""
        THEN <<"no documentation">> ELSE <<>>)
    \o (IF test.mocks = 0 /\ test.assertions > 0 THEN <<"no mocking">> ELSE <<>>)

RECURSIVE _identify_low_quality_tests(_)
_identify_low_quality_tests(tests) ==
    IF tests = <<>> THEN <<>>
    ELSE (IF Issues(Head(tests)) # <<>>
          THEN <<[name |-> Head(tests).name, issues |-> Issues(Head(tests))]>>
          ELSE <<>>)
         \o _identify_low_quality_tests(Tail(tests))

(* Mutant: only the first test's tested_units are taken into the union. *)
CoveredUnits_FirstTestOnly(tests) ==
    IF tests = <<>> THEN {} ELSE tests[1].tested_units

CoveredUnits(tests) == UnionAll([i \in 1..Len(tests) |-> tests[i].tested_units])

UnitNameSet(units) == {units[i].name : i \in 1..Len(units)}

PerTest(total, tests) == IF tests # <<>> THEN Rat(total, Len(tests)) ELSE Zero

(* Mutant: the coverage numerator counts a unit once for every test that
   lists it. *)
assess_quality_CountsListings(units, tests, answers) ==
    LET covered_units == CoveredUnits(tests)
        total_assertions == SumSeq([i \in 1..Len(tests) |-> tests[i].assertions])
        total_mocks == SumSeq([i \in 1..Len(tests) |-> tests[i].mocks])
        total_complexity == SumSeq([i \in 1..Len(tests) |-> tests[i].complexity])
    IN  [coverage_percentage |->
             IF units # <<>>
             THEN Rat(SumSeq([i \in 1..Len(tests) |->
                                 Cardinality(tests[i].tested_units)]) * 100,
                      Len(units))
             ELSE Zero,
         mutation_score |-> Zero,
         assertion_density |-> PerTest(total_assertions, tests),
         test_clarity_score |-> _assess_test_clarity(tests, answers),
         complexity_score |-> PerTest(total_complexity, tests),
         mock_coverage |-> PerTest(total_mocks, tests),
         total_tests |-> Len(tests),
         total_assertions |-> total_assertions,
         total_mocks |-> total_mocks,
         uncovered_units |-> UnitNameSet(units) \ covered_units,
         low_quality_tests |-> _identify_low_quality_tests(tests)]

(* Mutant: the oracle's clarity value and the complexity average are
   stored in each other's field. *)
assess_quality_SwappedFields(units, tests, answers) ==
    LET covered_units == CoveredUnits(tests)
        total_assertions == SumSeq([i \in 1..Len(tests) |-> tests[i].assertions])
        total_mocks == SumSeq([i \in 1..Len(tests) |-> tests[i].mocks])
        total_complexity == SumSeq([i \in 1..Len(tests) |-> tests[i].complexity])
    IN  [coverage_percentage |->
             IF units # <<>>
             THEN Rat(Cardinality(covered_units) * 100, Len(units))
             ELSE Zero,
         mutation_score |-> Zero,
         assertion_density |-> PerTest(total_assertions, tests),
         test_clarity_score |-> PerTest(total_complexity, tests),
         complexity_score |-> _assess_test_clarity(tests, answers),
         mock_coverage |-> PerTest(total_mocks, tests),
         total_tests |-> Len(tests),
         total_assertions |-> total_assertions,
         total_mocks |-> total_mocks,
         uncovered_units |-> UnitNameSet(units) \ covered_units,
         low_quality_tests |-> _identify_low_quality_tests(tests)]

assess_quality(units, tests, answers) ==
    LET covered_units == CoveredUnits(tests)
        total_assertions == SumSeq([i \in 1..Len(tests) |-> tests[i].assertions])
        total_mocks == SumSeq([i \in 1..Len(tests) |-> tests[i].mocks])
        total_complexity == SumSeq([i \in 1..Len(tests) |-> tests[i].complexity])
    IN  [coverage_percentage |->
             IF units # <<>>
             THEN Rat(Cardinality(covered_units) * 100, Len(units))
             ELSE Zero,
         mutation_score |-> Zero,
         assertion_density |-> PerTest(total_assertions, tests),
         test_clarity_score |-> _assess_test_clarity(tests, answers),
         complexity_score |-> PerTest(total_complexity, tests),
         mock_coverage |-> PerTest(total_mocks, tests),
         total_tests |-> Len(tests),
         total_assertions |-> total_assertions,
         total_mocks |-> total_mocks,
         uncovered_units |-> UnitNameSet(units) \ covered_units,
         low_quality_tests |-> _identify_low_quality_tests(tests)]

----------------------------------------------------------------------------
(* TestGeneratorAgent: src/src/agents.py *)

FencePython == "<fence>python"
Fence == "<fence>"

(* str.find on tokens: the first position >= from whose token is in S,
   0 when there is none. *)
Find(s, S, from) ==
    IF \E i \in from..Len(s) : s[i] \in S
    THEN CHOOSE i \in from..Len(s) :
             s[i] \in S /\ \A j \in from..(i - 1) : s[j] \notin S
    ELSE 0

(* The tokens of a response: the fences, the one-character tokens, the
   five counted words and what is left of a word when characters are cut
   off its end. *)
OneCharTokens == {"x", "\n", "a", ".", "m", "M", "p"}

(* The token without its last character ("" when nothing is left). *)
Chop(tok) ==
    CASE tok = "assert " -> "assert"
      [] tok = "assert" -> "asser"
      [] tok = "asser" -> "asse"
      [] tok = "asse" -> "ass"
      [] tok = "ass" -> "as"
      [] tok = "as" -> "a"
      [] tok = ".assert" -> ".asser"
      [] tok = ".asser" -> ".asse"
      [] tok = ".asse" -> ".ass"
      [] tok = ".ass" -> ".as"
      [] tok = ".as" -> ".a"
      [] tok = ".a" -> "."
      [] tok = "mock" -> "moc"
      [] tok = "moc" -> "mo"
      [] tok = "mo" -> "m"
      [] tok = "Mock" -> "Moc"
      [] tok = "Moc" -> "Mo"
      [] tok = "Mo" -> "M"
      [] tok = "patch" -> "patc"
      [] tok = "patc" -> "pat"
      [] tok = "pat" -> "pa"
      [] tok = "pa" -> "p"
      [] tok \in OneCharTokens -> ""

(* text[:-1] *)
ChopLast(s) ==
    IF s = <<>> THEN <<>>
    ELSE LET front == SubSeq(s, 1, Len(s) - 1)
             t == Chop(s[Len(s)])
         IN  IF t = "" THEN front ELSE Append(front, t)

RECURSIVE LStrip(_)
LStrip(s) == IF s # <<>> /\ Head(s) = "\n" THEN LStrip(Tail(s)) ELSE s

RECURSIVE RStrip(_)
RStrip(s) ==
    IF s = <<>> THEN s
    ELSE LET front == SubSeq(s, 1, Len(s) - 1)
         IN  IF s[Len(s)] = "\n" THEN RStrip(front)
             ELSE IF s[Len(s)] = "assert " THEN Append(front, "assert")
             ELSE s

Strip(s) == RStrip(LStrip(s))

(* response[start:end] where end = response.find(fence, start); when no
   closing fence is found end is -1 and the last character is lost. *)
Between(response, open) ==
    LET start == open + 1
        end == Find(response, {Fence, FencePython}, start)
    IN  IF end = 0
        THEN ChopLast(SubSeq(response, start, Len(response)))
        ELSE SubSeq(response, start, end - 1)

_extract_test_code(response) ==
    IF Find(response, {FencePython}, 1) # 0
    THEN Strip(Between(response, Find(response, {FencePython}, 1)))
    ELSE IF Find(response, {Fence}, 1) # 0
    THEN Strip(Between(response, Find(response, {Fence}, 1)))
    ELSE Strip(response)

(* The characters of a token; "<tick>" is the backquote. *)
Chars(tok) ==
    CASE tok = "x" -> <<"x">>
      [] tok = "\n" -> <<"\n">>
      [] tok = "a" -> <<"a">>
      [] tok = "as" -> <<"a", "s">>
      [] tok = "ass" -> <<"a", "s", "s">>
      [] tok = "asse" -> <<"a", "s", "s", "e">>
      [] tok = "asser" -> <<"a", "s", "s", "e", "r">>
      [] tok = "assert" -> <<"a", "s", "s", "e", "r", "t">>
      [] tok = "assert " -> <<"a", "s", "s", "e", "r", "t", " ">>
      [] tok = "." -> <<".">>
      [] tok = ".a" -> <<".", "a">>
      [] tok = ".as" -> <<".", "a", "s">>
      [] tok = ".ass" -> <<".", "a", "s", "s">>
      [] tok = ".asse" -> <<".", "a", "s", "s", "e">>
      [] tok = ".asser" -> <<".", "a", "s", "s", "e", "r">>
      [] tok = ".assert" -> <<".", "a", "s", "s", "e", "r", "t">>
      [] tok = "m" -> <<"m">>
      [] tok = "mo" -> <<"m", "o">>
      [] tok = "moc" -> <<"m", "o", "c">>
      [] tok = "mock" -> <<"m", "o", "c", "k">>
      [] tok = "M" -> <<"M">>
      [] tok = "Mo" -> <<"M", "o">>
      [] tok = "Moc" -> <<"M", "o", "c">>
      [] tok = "Mock" -> <<"M", "o", "c", "k">>
      [] tok = "p" -> <<"p">>
      [] tok = "pa" -> <<"p", "a">>
      [] tok = "pat" -> <<"p", "a", "t">>
      [] tok = "patc" -> <<"p", "a", "t", "c">>
      [] tok = "patch" -> <<"p", "a", "t", "c", "h">>
      [] tok = Fence -> <<"<tick>", "<tick>", "<tick>">>
      [] tok = FencePython ->
           <<"<tick>", "<tick>", "<tick>", "p", "y", "t", "h", "o", "n">>

(* The text of a token sequence, character by character. *)
RECURSIVE Text(_)
Text(s) == IF s = <<>> THEN <<>> ELSE Chars(Head(s)) \o Text(Tail(s))

(* text.count(sub) from position i on: the occurrences that do not
   overlap, found from left to right. *)
RECURSIVE CountFrom(_, _, _)
CountFrom(text, sub, i) ==
    IF i + Len(sub) - 1 > Len(text) THEN 0
    ELSE IF \A k \in 1..Len(sub) : text[i + k - 1] = sub[k]
    THEN 1 + CountFrom(text, sub, i + Len(sub))
    ELSE CountFrom(text, sub, i + 1)

(* code.count(word) *)
Count(code, word) == CountFrom(Text(code), Chars(word), 1)

_count_assertions_in_code(code) ==
    Count(code, "assert ") + Count(code, ".assert")

_count_mocks_in_code(code) ==
    Count(code, "mock") + Count(code, "Mock") + Count(code, "patch")

TestName(unit_name) == "test_" \o unit_name

GeneratedPath(unit_name) == "tests/test_" \o unit_name \o ".py"

(* One answer of the oracle to a generation prompt. *)
GenRaise == [kind |-> "raise", text |-> <<>>]

GenAnswers ==
    {GenRaise,
     [kind |-> "text", text |-> <<Fence, "\n", Fence>>],
     [kind |-> "text",
      text |-> <<"x", FencePython, "\n", "assert ", "assert ", ".assert",
                 "mock", "\n", Fence, "x">>],
     [kind |-> "text", text |-> <<"\n", "assert ", "x", "patc", "\n">>],
     [kind |-> "text", text |-> <<FencePython, "assert ", "x", "patch">>]}

(* What generate_tests reads off the extracted code: the line count and
   the two substring counts. *)
CodeCounts(code) ==
    [line_end |-> Count(code, "\n") + 1,
     assertions |-> _count_assertions_in_code(code),
     mocks |-> _count_mocks_in_code(code)]

(* CodeCounts of the code in each answer of GenAnswers, computed once. *)
KnownCounts ==
    [code \in {_extract_test_code(answer.text) : answer \in GenAnswers} |->
        CodeCounts(code)]

Counts(code) ==
    IF code \in DOMAIN KnownCounts THEN KnownCounts[code] ELSE CodeCounts(code)

(* Mutant: a failed oracle call yields a placeholder test instead of []. *)
generate_tests_Placeholder(code_unit, answer) ==
    LET generated_code ==
            IF answer.kind = "raise" THEN <<"x">>
            ELSE _extract_test_code(answer.text)
    IN  IF generated_code # <<>>
        THEN <<TestCase(TestName(code_unit.name), "unit",
                        GeneratedPath(code_unit.name),
                        1, Counts(generated_code).line_end, {code_unit.name},
                        Counts(generated_code).assertions,
                        Counts(generated_code).mocks, 0, None,
                        generated_code)>>
        ELSE <<>>

(* Mutant: the generated test lists its own name, not the unit's. *)
generate_tests_ListsTestName(code_unit, answer) ==
    IF answer.kind = "raise" THEN <<>>
    ELSE LET generated_code == _extract_test_code(answer.text)
         IN  IF generated_code # <<>>
             THEN <<TestCase(TestName(code_unit.name),
                             "unit",
                             GeneratedPath(code_unit.name),
                             1,
                             Counts(generated_code).line_end,
                             {TestName(code_unit.name)},
                             Counts(generated_code).assertions,
                             Counts(generated_code).mocks,
                             0,
                             None,
                             generated_code)>>
             ELSE <<>>

(* Mutant: the generated test is built without its tested_units, as a
   discovered test is. *)
generate_tests_NoTestedUnits(code_unit, answer) ==
    IF answer.kind = "raise" THEN <<>>
    ELSE LET generated_code == _extract_test_code(answer.text)
         IN  IF generated_code # <<>>
             THEN <<TestCase(TestName(code_unit.name),
                             "unit",
                             GeneratedPath(code_unit.name),
                             1,
                             Counts(generated_code).line_end,
                             {},
                             Counts(generated_code).assertions,
                             Counts(generated_code).mocks,
                             0,
                             None,
                             generated_code)>>
             ELSE <<>>

generate_tests(code_unit, answer) ==
    IF answer.kind = "raise" THEN <<>>
    ELSE LET generated_code == _extract_test_code(answer.text)
         IN  IF generated_code # <<>>
             THEN <<TestCase(TestName(code_unit.name),
                             "unit",
                             GeneratedPath(code_unit.name),
                             1,
                             Counts(generated_code).line_end,
                             {code_unit.name},
                             Counts(generated_code).assertions,
                             Counts(generated_code).mocks,
                             0,
                             None,
                             generated_code)>>
             ELSE <<>>

----------------------------------------------------------------------------
(* TestJudgeAgent: src/src/agents.py *)

(* A line of the judge's answer: a criterion line with a number after the
   colon ("score"), a criterion line without one ("noise"), any other
   non-blank line that is no comment ("feedback"), or a blank or comment
   line ("blank"). *)
ScoreLine(k, v) == [kind |-> "score", key |-> k, val |-> v]

TextLine(kind, text) == [kind |-> kind, key |-> text, val |-> 0]

(* A dict is the sequence of its items in insertion order. d[k] = v puts
   a new key at the end and leaves an old key in its place. *)
SetItem(items, k, v) ==
    IF \E i \in 1..Len(items) : items[i].key = k
    THEN [i \in 1..Len(items) |->
             IF items[i].key = k THEN [key |-> k, val |-> v] ELSE items[i]]
    ELSE Append(items, [key |-> k, val |-> v])

(* The scores dict after the loop over the lines; a score is
   float(score_text.split()[0]) of a text with at most three decimals,
   which a line carries in thousandths. *)
RECURSIVE ScoresOf(_)
ScoresOf(lines) ==
    IF lines = <<>> THEN <<>>
    ELSE LET prev == ScoresOf(SubSeq(lines, 1, Len(lines) - 1))
             line == lines[Len(lines)]
         IN  IF line.kind = "score"
             THEN SetItem(prev, line.key, FloatOfDecimal(line.val))
             ELSE prev

RECURSIVE FeedbackOf(_)
FeedbackOf(lines) ==
    IF lines = <<>> THEN <<>>
    ELSE (IF Head(lines).kind = "feedback" THEN <<Head(lines).key>> ELSE <<>>)
         \o FeedbackOf(Tail(lines))

(* overall_score = sum(scores.values()) / len(scores) if scores else 5.0,
   in float arithmetic. *)
_parse_judgment_response(lines, compensated_sum) ==
    LET scores == ScoresOf(lines)
    IN  [overall_score |->
             IF scores # <<>>
             THEN FDivSmall(FSum([i \in 1..Len(scores) |-> scores[i].val],
                                 compensated_sum),
                            Len(scores))
             ELSE FloatOfDecimal(NeutralScore),
         criterion_scores |-> scores,
         feedback |-> FeedbackOf(lines)]

JudgeRaise == [kind |-> "raise", lines |-> <<>>]

JudgeAnswers ==
    {JudgeRaise,
     [kind |-> "text",
      lines |-> <<TextLine("feedback", "Looks fine"), TextLine("blank", "")>>],
     [kind |-> "text",
      lines |-> <<ScoreLine("Coverage completeness", 3000),
                  TextLine("noise", "Assertion quality: good"),
                  ScoreLine("Coverage completeness", 7000),
                  TextLine("feedback", "Nice")>>],
     [kind |-> "text",
      lines |-> <<ScoreLine("Coverage completeness", 9600),
                  ScoreLine("Assertion quality", 9700),
                  TextLine("blank", ""),
                  ScoreLine("Code readability", 1700)>>]}

(* Mutant: a failed oracle call is scored 10 instead of the neutral 5. *)
judge_test_ErrorScoresTop(answer, compensated_sum) ==
    IF answer.kind = "raise"
    THEN [overall_score |-> FloatOfDecimal(MaxClarity),
          feedback |-> <<"Error in evaluation">>]
    ELSE _parse_judgment_response(answer.lines, compensated_sum)

judge_test(answer, compensated_sum) ==
    IF answer.kind = "raise"
    THEN [overall_score |-> FloatOfDecimal(NeutralScore),
          feedback |-> <<"Error in evaluation">>]
    ELSE _parse_judgment_response(answer.lines, compensated_sum)

(* The judgments of the answers the oracle can give, on either kind of
   interpreter. *)
Judged ==
    [call \in {<<answer, c>> : answer \in JudgeAnswers, c \in BOOLEAN} |->
        judge_test(call[1], call[2])]

----------------------------------------------------------------------------
(* Inputs of the assessor when it is called as a function of (U, T).      *)
(* tested_units may name things that are not units, U may hold several    *)
(* units of one name (the same function name in two files).               *)

AssessTests ==
    {TestCase("test_x", "unit", "tests/test_x.py", 1, 3, tu, 5, 1, 2, "doc", <<"x">>) :
        tu \in {{}, {"a"}, {"b"}, {"a", "b"}, {"z"}, {"a", "z"}}}
    \cup {TestCase("test_y", "unit", "tests/test_y.py", 1, 3, {}, 0, 0, 1, "doc", <<"x">>),
          TestCase("test_y", "unit", "tests/test_y.py", 1, 3, {}, 5, 0, 2, "doc", <<"x">>),
          TestCase("test_y", "unit", "tests/test_y.py", 1, 3, {}, 5, 1, 6, "doc", <<"x">>),
          TestCase("test_y", "unit", "tests/test_y.py", 1, 3, {}, 5, 1, 2, None, <<"x">>),
          TestCase("test_y", "unit", "tests/test_y.py", 1, 3, {}, 5, 1, 2, "doc", NoneCode)}

AuditIdle ==
    /\ stage = "idle"
    /\ audit_args = <<>>
    /\ before_metrics = <<>>
    /\ after_metrics = <<>>
    /\ before_mutation = <<>>
    /\ after_mutation = <<>>
    /\ audit_report = <<>>
    /\ reports = {}
    /\ assessed = <<>>

CliIdle ==
    /\ local_code_units = <<>>
    /\ local_test_cases = <<>>
    /\ uncovered_units = {}
    /\ generated_count = 0

LoopIdle ==
    /\ generated_tests = <<>>
    /\ test_files = {}
    /\ max_iterations = 0
    /\ iteration = 0
    /\ target_units = <<>>
    /\ idx = 0
    /\ improvements_made = FALSE
    /\ new_tests = <<>>
    /\ judgment = <<>>
    /\ compensated \in BOOLEAN
    /\ events = <<>>
    /\ started = 0
    /\ improved = 0
    /\ gen_calls = 0
    /\ judge_calls = 0
    /\ oracle = <<>>

loopVars == <<generated_tests, test_files, max_iterations, iteration,
              target_units, idx, improvements_made, new_tests, judgment,
              compensated, events, started, improved, gen_calls, judge_calls,
              oracle>>

InitAssess ==
    /\ AuditIdle
    /\ CliIdle
    /\ code_units \in DistinctSeqsUpTo(CodeUnits, MaxUnits)
    /\ test_cases \in SeqsUpTo(AssessTests, MaxTests)
    /\ metrics = <<>>
    /\ pc = "assess"
    /\ LoopIdle

(* One call metrics = assess_quality(code_units, test_cases); the oracle
   gives one answer for every test it is asked about. *)
AssessQuality ==
    /\ pc = "assess"
    /\ UNCHANGED auditVars
    /\ UNCHANGED cliVars
    /\ \E answers \in [1..Len(test_cases) -> ClarityAnswers] :
           metrics' = <<assess_quality(code_units, test_cases, answers)>>
    /\ pc' = "assessed"
    /\ UNCHANGED <<code_units, test_cases>>
    /\ UNCHANGED loopVars

NextAssess == AssessQuality

SpecAssess == InitAssess /\ [][NextAssess]_vars

Assessed == pc = "assessed"

Result == metrics[1]

(* A test of T lists the name of a unit of U. *)
SomeUnitListed ==
    \E i \in 1..Len(code_units), j \in 1..Len(test_cases) :
        code_units[i].name \in test_cases[j].tested_units

(* C1: for every U and T the coverage_percentage returned by
   assess_quality lies in the closed range [0, 100]. *)
C1_CoverageInRange ==
    Assessed =>
        /\ RatLe(Zero, Result.coverage_percentage)
        /\ RatLe(Result.coverage_percentage, Rat(100, 1))

(* C2: coverage_percentage is 0 exactly when U is empty or no test lists
   the name of any unit of U. *)
C2_ZeroIffNothingCovered ==
    Assessed =>
        (RatEq(Result.coverage_percentage, Zero)
            <=> (code_units = <<>> \/ ~SomeUnitListed))

(* C3: uncovered_units is exactly the set of the unit names of U that no
   test of T lists in its tested_units. *)
C3_UncoveredIsSetDifference ==
    Assessed =>
        \A n \in AllNames :
            n \in Result.uncovered_units
                <=> /\ \E i \in 1..Len(code_units) : code_units[i].name = n
                    /\ \A j \in 1..Len(test_cases) :
                           n \notin test_cases[j].tested_units

(* C3 witness: an assessment of two units where one is listed by a test
   (together with a name that is no unit) and the other is left uncovered. *)
C3_Witness ==
    /\ Assessed
    /\ Len(code_units) = 2
    /\ Result.uncovered_units = {"b"}
    /\ \E j \in 1..Len(test_cases) : test_cases[j].tested_units = {"a", "z"}

----------------------------------------------------------------------------
(* TestingFramework: src/src/framework.py *)

(* Mutant: a test without assertions does not count as coverage. *)
_identify_uncovered_units_NeedsAssertion(units, tests) ==
    UnitNameSet(units)
    \ UnionAll([i \in 1..Len(tests) |->
                    IF tests[i].assertions > 0 THEN tests[i].tested_units ELSE {}])

_identify_uncovered_units(units, tests) ==
    UnitNameSet(units) \ CoveredUnits(tests)

(* The tests of the working set that list unit_name, in list order. *)
RECURSIVE TestsOf(_, _)
TestsOf(unit_name, tests) ==
    IF tests = <<>> THEN <<>>
    ELSE (IF unit_name \in Head(tests).tested_units THEN <<Head(tests)>> ELSE <<>>)
         \o TestsOf(unit_name, Tail(tests))

(* Mutant: units whose totals equal the minimum are marked as well. *)
_identify_low_quality_units_Inclusive(tests) ==
    {unit_name \in UnionAll([i \in 1..Len(tests) |-> tests[i].tested_units]) :
        LET group == TestsOf(unit_name, tests)
            total_assertions == SumSeq([i \in 1..Len(group) |-> group[i].assertions])
            total_mocks == SumSeq([i \in 1..Len(group) |-> group[i].mocks])
        IN  total_assertions <= MinAssertions \/ total_mocks <= MinMocks}

(* Mutant: a unit is marked when one of its tests is weak on its own. *)
_identify_low_quality_units_PerTest(tests) ==
    {unit_name \in CoveredUnits(tests) :
        \E i \in 1..Len(tests) :
            /\ unit_name \in tests[i].tested_units
            /\ (tests[i].assertions < MinAssertions \/ tests[i].mocks < MinMocks)}

_identify_low_quality_units(tests) ==
    {unit_name \in CoveredUnits(tests) :
        LET group == TestsOf(unit_name, tests)
            total_assertions == SumSeq([i \in 1..Len(group) |-> group[i].assertions])
            total_mocks == SumSeq([i \in 1..Len(group) |-> group[i].mocks])
        IN  total_assertions < MinAssertions \/ total_mocks < MinMocks}

(* Mutant: a name that matches no unit falls back to the first unit. *)
_find_code_unit_FirstOnMiss(units, unit_name) ==
    IF \E i \in 1..Len(units) : units[i].name = unit_name
    THEN <<units[CHOOSE i \in 1..Len(units) :
                    /\ units[i].name = unit_name
                    /\ \A j \in 1..(i - 1) : units[j].name # unit_name]>>
    ELSE IF units # <<>> THEN <<units[1]>> ELSE <<>>

(* <<unit>> for the first unit of that name, <<>> for None. *)
_find_code_unit(units, unit_name) ==
    IF \E i \in 1..Len(units) : units[i].name = unit_name
    THEN <<units[CHOOSE i \in 1..Len(units) :
                    /\ units[i].name = unit_name
                    /\ \A j \in 1..(i - 1) : units[j].name # unit_name]>>
    ELSE <<>>

(* Path(file_path).name for the paths of generated tests. *)
Basename(path) ==
    CHOOSE b \in {"test_" \o n \o ".py" : n \in AllNames} : path = "tests/" \o b

Preamble == "import pytest ... sys.path.insert(0, src)"

(* A directory after open(name, 'w') and the write of a content: the
   file is created or replaced. *)
WriteFile(files, name, content) ==
    {f \in files : f.name # name} \cup {[name |-> name, content |-> content]}

(* A token that was cut short: a proper prefix of the next token. *)
Torn == "<torn>"

(* What a file can hold when the write of a content did not complete:
   any proper prefix of it, the empty file of open(name, 'w') included. *)
ProperPrefixes(content) ==
    {SubSeq(content, 1, k) : k \in 0..(Len(content) - 1)}
    \cup {Append(SubSeq(content, 1, k), Torn) : k \in 0..(Len(content) - 1)}

(* The tests directory after _save_test_case(test_case): the file is
   created or overwritten. *)
_save_test_case(files, test_case) ==
    WriteFile(files, Basename(test_case.file_path),
              <<Preamble>> \o test_case.source_code)

(* The tests directories a _save_test_case(test_case) that raises can
   leave: open() failed and nothing changed, or open() created or truncated
   the file and the write stopped short. *)
_save_test_case_raises(files, test_case) ==
    {files}
    \cup {WriteFile(files, Basename(test_case.file_path), p) :
             p \in ProperPrefixes(<<Preamble>> \o test_case.source_code)}

(* judgment.get("overall_score", 0) >= 7.0 *)
OverallScore(j) ==
    IF "overall_score" \in DOMAIN j THEN j.overall_score ELSE FloatZero

Threshold == FloatOfDecimal(QualityThreshold)

(* Mutant: the threshold is compared with > instead of >=. *)
MeetsThreshold_Strict(j) == FLt(Threshold, OverallScore(j))

MeetsThreshold(j) == ~FLt(OverallScore(j), Threshold)

(* Catalogs and working test sets a caller can hand to the loop. *)
LoopUnits == CodeUnits

LoopTest(tu, a, m) ==
    TestCase("test_x", "unit", "tests/test_x.py", 1, 3, tu, a, m, 1, "doc", <<"x">>)

LoopTests ==
    {LoopTest({}, 0, 0), LoopTest({"a"}, 0, 0), LoopTest({"a", "b"}, 3, 1),
     LoopTest({"z"}, 0, 0)}

Init ==
    /\ AuditIdle
    /\ CliIdle
    /\ code_units = <<>>
    /\ test_cases = <<>>
    /\ metrics = <<>>
    /\ pc = "constructed"
    /\ LoopIdle

(* The caller sets the catalog: framework.code_units = ...,
   framework.test_cases = ... *)
AssignCatalog ==
    /\ pc = "constructed"
    /\ UNCHANGED auditVars
    /\ UNCHANGED cliVars
    /\ code_units' \in DistinctSeqsUpTo(LoopUnits, MaxUnits)
    /\ test_cases' \in SeqsUpTo(LoopTests, MaxInitTests)
    /\ pc' = "loaded"
    /\ UNCHANGED metrics
    /\ UNCHANGED loopVars

(* Call of _improve_tests_iteratively(max_iterations). *)
StartLoop ==
    /\ pc = "loaded"
    /\ UNCHANGED auditVars
    /\ UNCHANGED cliVars
    /\ max_iterations' \in 0..MaxIter
    /\ iteration' = 0
    /\ pc' = "select"
    /\ UNCHANGED <<code_units, test_cases, generated_tests, test_files, metrics,
                   target_units, idx, improvements_made, new_tests, judgment,
                   compensated, events, started, improved, gen_calls, judge_calls,
                   oracle>>

(* Mutant: the last iteration of the budget is not run. *)
InRange_OffByOne(i, n) == 0 <= i /\ i + 1 < n

(* Mutant: one iteration more than the budget is run. *)
InRange_Inclusive(i, n) == 0 <= i /\ i <= n

(* A member of range(max_iterations). *)
InRange(i, n) == 0 <= i /\ i < n

(* Head of `for iteration in range(max_iterations)` and the target
   selection of the iteration (lines 149-164). *)
SelectTargets ==
    /\ pc = "select"
    /\ UNCHANGED auditVars
    /\ UNCHANGED cliVars
    /\ IF ~InRange(iteration, max_iterations)
       THEN /\ pc' = "done"
            /\ UNCHANGED <<target_units, idx, improvements_made, events, started>>
       ELSE /\ \E u \in ListOf(_identify_uncovered_units(code_units, test_cases)),
                  l \in ListOf(_identify_low_quality_units(test_cases)) :
                    target_units' = u \o l
            /\ started' = started + 1
            /\ events' = <<>>
            /\ IF target_units' = <<>>
               THEN /\ pc' = "done"
                    /\ UNCHANGED <<idx, improvements_made>>
               ELSE /\ improvements_made' = FALSE
                    /\ idx' = 1
                    /\ pc' = "target"
    /\ UNCHANGED <<code_units, test_cases, generated_tests, test_files, metrics,
                   max_iterations, iteration, new_tests, judgment, compensated,
                   improved, gen_calls, judge_calls, oracle>>

(* Mutant: every target of the list is handled. *)
Targeted_NoCap == Len(target_units)

Targeted == Min(Len(target_units), TargetCap)

(* One pass of `for unit_name in target_units[:5]` up to the call of the
   judge (lines 166-176). *)
NextTarget ==
    /\ pc = "target"
    /\ UNCHANGED auditVars
    /\ UNCHANGED cliVars
    /\ idx <= Targeted
    /\ LET unit == _find_code_unit(code_units, target_units[idx])
       IN  IF unit = <<>>
           THEN /\ events' = Append(events, "skipped")
                /\ idx' = idx + 1
                /\ oracle' = <<>>
                /\ UNCHANGED <<new_tests, gen_calls, pc>>
           ELSE \E answer \in GenAnswers :
                    /\ new_tests' = generate_tests(unit[1], answer)
                    /\ gen_calls' = gen_calls + 1
                    /\ oracle' = <<"generator", answer.kind>>
                    /\ IF new_tests' = <<>>
                       THEN /\ events' = Append(events,
                                   IF answer.kind = "raise"
                                   THEN "generator failed" ELSE "no code")
                            /\ idx' = idx + 1
                            /\ UNCHANGED pc
                       ELSE /\ pc' = "judge"
                            /\ UNCHANGED <<events, idx>>
    /\ judgment' = <<>>
    /\ UNCHANGED <<code_units, test_cases, generated_tests, test_files, metrics,
                   max_iterations, iteration, target_units, improvements_made,
                   compensated, started, improved, judge_calls>>

(* Mutant: the accepted test is added to the collections before its file
   is written. *)
JudgeCandidate_AppendFirst ==
    /\ pc = "judge"
    /\ UNCHANGED auditVars
    /\ UNCHANGED cliVars
    /\ \E answer \in JudgeAnswers, written \in BOOLEAN :
         LET test == Head(new_tests)
             j == Judged[<<answer, compensated>>]
             rest == Tail(new_tests)
         IN  /\ judgment' = <<j>>
             /\ judge_calls' = judge_calls + 1
             /\ oracle' = <<"judge", answer.kind>>
             /\ IF MeetsThreshold(j)
                THEN IF written
                     THEN /\ test_files' = _save_test_case(test_files, test)
                          /\ test_cases' = Append(test_cases, test)
                          /\ generated_tests' = Append(generated_tests, test)
                          /\ improvements_made' = TRUE
                          /\ events' = Append(events, "accepted")
                          /\ new_tests' = rest
                          /\ pc' = IF rest = <<>> THEN "target" ELSE "judge"
                          /\ idx' = IF rest = <<>> THEN idx + 1 ELSE idx
                     ELSE /\ pc' = "raised"
                          /\ test_cases' = Append(test_cases, test)
                          /\ generated_tests' = Append(generated_tests, test)
                          /\ improvements_made' = TRUE
                          /\ events' = Append(events, "write failed")
                          /\ test_files' \in _save_test_case_raises(test_files, test)
                          /\ UNCHANGED <<new_tests, idx>>
                ELSE /\ events' = Append(events,
                            IF answer.kind = "raise"
                            THEN "judge failed" ELSE "rejected")
                     /\ new_tests' = rest
                     /\ pc' = IF rest = <<>> THEN "target" ELSE "judge"
                     /\ idx' = IF rest = <<>> THEN idx + 1 ELSE idx
                     /\ UNCHANGED <<test_files, test_cases, generated_tests,
                                    improvements_made>>
    /\ UNCHANGED <<code_units, metrics, max_iterations, iteration, target_units,
                   compensated, started, improved, gen_calls>>

(* Mutant: an accepted test takes the place of the tests that have its
   identity triple. *)
JudgeCandidate_Replace ==
    /\ pc = "judge"
    /\ UNCHANGED auditVars
    /\ UNCHANGED cliVars
    /\ \E answer \in JudgeAnswers, written \in BOOLEAN :
         LET test == Head(new_tests)
             j == Judged[<<answer, compensated>>]
             rest == Tail(new_tests)
             Other(t) == TestKey(t) # TestKey(test)
         IN  /\ judgment' = <<j>>
             /\ judge_calls' = judge_calls + 1
             /\ oracle' = <<"judge", answer.kind>>
             /\ IF MeetsThreshold(j)
                THEN IF written
                     THEN /\ test_files' = _save_test_case(test_files, test)
                          /\ test_cases' = Append(SelectSeq(test_cases, Other), test)
                          /\ generated_tests' = Append(generated_tests, test)
                          /\ improvements_made' = TRUE
                          /\ events' = Append(events, "accepted")
                          /\ new_tests' = rest
                          /\ pc' = IF rest = <<>> THEN "target" ELSE "judge"
                          /\ idx' = IF rest = <<>> THEN idx + 1 ELSE idx
                     ELSE /\ pc' = "raised"
                          /\ events' = Append(events, "write failed")
                          /\ test_files' \in _save_test_case_raises(test_files, test)
                          /\ UNCHANGED <<test_cases, generated_tests,
                                         improvements_made, new_tests, idx>>
                ELSE /\ events' = Append(events,
                            IF answer.kind = "raise"
                            THEN "judge failed" ELSE "rejected")
                     /\ new_tests' = rest
                     /\ pc' = IF rest = <<>> THEN "target" ELSE "judge"
                     /\ idx' = IF rest = <<>> THEN idx + 1 ELSE idx
                     /\ UNCHANGED <<test_files, test_cases, generated_tests,
                                    improvements_made>>
    /\ UNCHANGED <<code_units, metrics, max_iterations, iteration, target_units,
                   compensated, started, improved, gen_calls>>

(* Mutant: the target list is computed anew after every acceptance. *)
JudgeCandidate_Recompute ==
    /\ pc = "judge"
    /\ UNCHANGED auditVars
    /\ UNCHANGED cliVars
    /\ \E answer \in JudgeAnswers, written \in BOOLEAN :
         LET test == Head(new_tests)
             j == Judged[<<answer, compensated>>]
             rest == Tail(new_tests)
         IN  /\ judgment' = <<j>>
             /\ judge_calls' = judge_calls + 1
             /\ oracle' = <<"judge", answer.kind>>
             /\ IF MeetsThreshold(j)
                THEN IF written
                     THEN /\ test_files' = _save_test_case(test_files, test)
                          /\ test_cases' = Append(test_cases, test)
                          /\ generated_tests' = Append(generated_tests, test)
                          /\ improvements_made' = TRUE
                          /\ events' = Append(events, "accepted")
                          /\ new_tests' = rest
                          /\ pc' = IF rest = <<>> THEN "target" ELSE "judge"
                          /\ idx' = IF rest = <<>> THEN idx + 1 ELSE idx
                          /\ \E u \in ListOf(_identify_uncovered_units(code_units, test_cases')),
                                l \in ListOf(_identify_low_quality_units(test_cases')) :
                                  target_units' = u \o l
                     ELSE /\ pc' = "raised"
                          /\ events' = Append(events, "write failed")
                          /\ test_files' \in _save_test_case_raises(test_files, test)
                          /\ UNCHANGED <<test_cases, generated_tests,
                                         improvements_made, new_tests, idx,
                                         target_units>>
                ELSE /\ events' = Append(events,
                            IF answer.kind = "raise"
                            THEN "judge failed" ELSE "rejected")
                     /\ new_tests' = rest
                     /\ pc' = IF rest = <<>> THEN "target" ELSE "judge"
                     /\ idx' = IF rest = <<>> THEN idx + 1 ELSE idx
                     /\ UNCHANGED <<test_files, test_cases, generated_tests,
                                    improvements_made, target_units>>
    /\ UNCHANGED <<code_units, metrics, max_iterations, iteration, compensated,
                   started, improved, gen_calls>>

(* One pass of `for test in new_tests`: judge, then accept or reject
   (lines 176-187). A failed write raises out of the loop. *)
JudgeCandidate ==
    /\ pc = "judge"
    /\ UNCHANGED auditVars
    /\ UNCHANGED cliVars
    /\ \E answer \in JudgeAnswers, written \in BOOLEAN :
         LET test == Head(new_tests)
             j == Judged[<<answer, compensated>>]
             rest == Tail(new_tests)
         IN  /\ judgment' = <<j>>
             /\ judge_calls' = judge_calls + 1
             /\ oracle' = <<"judge", answer.kind>>
             /\ IF MeetsThreshold(j)
                THEN IF written
                     THEN /\ test_files' = _save_test_case(test_files, test)
                          /\ test_cases' = Append(test_cases, test)
                          /\ generated_tests' = Append(generated_tests, test)
                          /\ improvements_made' = TRUE
                          /\ events' = Append(events, "accepted")
                          /\ new_tests' = rest
                          /\ pc' = IF rest = <<>> THEN "target" ELSE "judge"
                          /\ idx' = IF rest = <<>> THEN idx + 1 ELSE idx
                     ELSE /\ pc' = "raised"
                          /\ events' = Append(events, "write failed")
                          /\ test_files' \in _save_test_case_raises(test_files, test)
                          /\ UNCHANGED <<test_cases, generated_tests,
                                         improvements_made, new_tests, idx>>
                ELSE /\ events' = Append(events,
                            IF answer.kind = "raise"
                            THEN "judge failed" ELSE "rejected")
                     /\ new_tests' = rest
                     /\ pc' = IF rest = <<>> THEN "target" ELSE "judge"
                     /\ idx' = IF rest = <<>> THEN idx + 1 ELSE idx
                     /\ UNCHANGED <<test_files, test_cases, generated_tests,
                                    improvements_made>>
    /\ UNCHANGED <<code_units, metrics, max_iterations, iteration, target_units,
                   compensated, started, improved, gen_calls>>

(* Mutant: the loop never breaks for lack of improvement. *)
Breaks_Never(flag) == FALSE

(* `if not improvements_made: break` *)
Breaks(flag) == ~flag

(* End of the iteration: `if not improvements_made: break`, else the next
   iteration (lines 189-191). *)
EndIteration ==
    /\ pc = "target"
    /\ UNCHANGED auditVars
    /\ UNCHANGED cliVars
    /\ idx > Targeted
    /\ IF Breaks(improvements_made)
       THEN /\ pc' = "done"
            /\ UNCHANGED <<iteration, improved>>
       ELSE /\ iteration' = iteration + 1
            /\ improved' = improved + 1
            /\ pc' = "select"
    /\ judgment' = <<>>
    /\ oracle' = <<>>
    /\ UNCHANGED <<code_units, test_cases, generated_tests, test_files, metrics,
                   max_iterations, target_units, idx, improvements_made,
                   new_tests, compensated, events, started, gen_calls, judge_calls>>

Next ==
    \/ AssignCatalog
    \/ StartLoop
    \/ SelectTargets
    \/ NextTarget
    \/ JudgeCandidate
    \/ EndIteration

Spec == Init /\ [][Next]_vars

TypeOK ==
    /\ pc \in {"constructed", "loaded", "select", "target", "judge", "done",
               "raised", "assess", "assessed", "audit", "reassessed",
               "cli_mapped", "cli_discovered", "cli_done", "cli_aborted"}
    /\ started \in 0..MaxIter
    /\ iteration \in 0..MaxIter

----------------------------------------------------------------------------
(* Properties of the improvement loop *)

Last(s) == s[Len(s)]

Seven == FloatOfRatio(7, 1)

Five == FloatOfRatio(5, 1)

AtLeastSeven(score) == ~FLt(score, Seven)

Persisted(files, test) ==
    \E f \in files :
        /\ f.name = "test_" \o (CHOOSE n \in test.tested_units : TRUE) \o ".py"
        /\ \E k \in 1..Len(f.content) :
               SubSeq(f.content, k, Len(f.content)) = test.source_code

(* C4: a judged candidate is accepted iff its overall_score is >= 7.0:
   then it is persisted and appended to the working test set and to
   generated_tests; otherwise the working test set, generated_tests and the
   tests directory stay as they are. *)
C4_AcceptIffThreshold ==
    [][pc = "judge" =>
          LET test == Head(new_tests)
              j == judgment'[1]
          IN  IF "overall_score" \in DOMAIN j /\ AtLeastSeven(j.overall_score)
              THEN /\ test_cases' = Append(test_cases, test)
                   /\ generated_tests' = Append(generated_tests, test)
                   /\ Persisted(test_files', test)
              ELSE UNCHANGED <<test_cases, generated_tests, test_files>>]_vars

EveryUnitListed ==
    \A i \in 1..Len(code_units) :
        \E j \in 1..Len(test_cases) : code_units[i].name \in test_cases[j].tested_units

NoWeakUnit ==
    \A n \in AllNames :
        LET listing == {j \in 1..Len(test_cases) : n \in test_cases[j].tested_units}
            group == TestsOf(n, test_cases)
        IN  listing # {} =>
                /\ SumSeq([i \in 1..Len(group) |-> group[i].assertions]) >= 3
                /\ SumSeq([i \in 1..Len(group) |-> group[i].mocks]) >= 1

(* C5: when the loop starts with no uncovered and no low-quality unit, it
   ends in iteration 1 without a generator or judge call and leaves the
   working test set and generated_tests unchanged. *)
C5_NoTargetsEndsAtOnce ==
    [][(pc = "select" /\ iteration = 0 /\ max_iterations >= 1
            /\ EveryUnitListed /\ NoWeakUnit)
          => /\ pc' = "done"
             /\ started' = 1
             /\ gen_calls' = 0
             /\ judge_calls' = 0
             /\ UNCHANGED <<test_cases, generated_tests>>]_vars

(* C5 witness: a non-empty, fully covered catalog; the loop is done after
   one target selection that found nothing. *)
C5_Witness ==
    /\ pc = "done"
    /\ code_units # <<>>
    /\ max_iterations >= 1
    /\ started = 1
    /\ target_units = <<>>
    /\ gen_calls = 0 /\ judge_calls = 0
    /\ generated_tests = <<>>

(* C6: as long as no candidate has been accepted no second iteration is
   entered, and an iteration that ends without an acceptance ends the
   loop, whatever max_iterations is. *)
C6_NoAcceptanceStopsAfterFirst ==
    /\ [](generated_tests = <<>> => started <= 1)
    /\ [][(pc = "target" /\ idx > Targeted /\ generated_tests = <<>>)
             => pc' = "done"]_vars

(* C6 witness: with max_iterations > 1 the loop is done after one iteration
   in which candidates were generated and judged and none accepted. *)
C6_Witness ==
    /\ pc = "done"
    /\ max_iterations > 1
    /\ started = 1
    /\ judge_calls >= 1
    /\ generated_tests = <<>>

(* The loop has been left, by its return or by an exception. *)
LoopLeft == pc \in {"done", "raised"}

(* Every iteration that was entered had targets and accepted a candidate:
   the iterations that ended did, and so did the one an exception ended. *)
EveryIterationAccepted ==
    IF pc = "raised"
    THEN improved = started - 1 /\ improvements_made
    ELSE improved = started

(* C7: when every iteration that was entered had targets and accepted a
   candidate, the loop has run exactly max_iterations iterations when it
   is left. *)
C7_RunsWholeBudget ==
    (LoopLeft /\ EveryIterationAccepted) => started = max_iterations

InLoop == pc \in {"select", "target", "judge"}

LoopStep == SelectTargets \/ NextTarget \/ JudgeCandidate \/ EndIteration

(* The most steps one iteration takes: the target selection, generator and
   judge for each of the at most TargetCap targets, the end of the iteration. *)
StepsPerIteration == 2 * TargetCap + 2

(* An upper bound of the number of steps the loop still takes. *)
StepsLeft ==
    CASE pc = "select" -> 1 + (max_iterations - iteration) * StepsPerIteration
      [] pc = "target" ->
             (max_iterations - iteration - 1) * StepsPerIteration
             + 2 + 2 * (TargetCap + 1 - idx)
      [] pc = "judge" ->
             (max_iterations - iteration - 1) * StepsPerIteration
             + 2 + 2 * (TargetCap + 1 - idx) - 2 + Len(new_tests)
      [] OTHER -> 0

(* C8: whatever the oracles answer, the loop never enters more than
   max_iterations iterations and it reaches done: while it runs a step is
   always possible (each oracle call returns), and every step brings the
   loop closer to done by a measure that cannot fall below 0. *)
C8_TerminatesWithinBudget ==
    /\ [](InLoop \/ pc = "done" => started <= max_iterations)
    /\ [](InLoop => StepsLeft > 0 /\ ENABLED LoopStep)
    /\ [][InLoop => (StepsLeft' < StepsLeft /\ (InLoop' \/ pc' = "done"))]_vars

(* C9: a generator call whose oracle call fails returns [] and the loop
   goes on with the next target of the same iteration, nothing else
   changed. *)
C9_GeneratorFailureSkipsTarget ==
    [][(gen_calls' = gen_calls + 1 /\ oracle' = <<"generator", "raise">>)
          => /\ new_tests' = <<>>
             /\ pc' = "target"
             /\ idx' = idx + 1
             /\ UNCHANGED <<iteration, target_units, test_cases,
                            generated_tests, test_files, improvements_made>>]_vars

(* C9 witness: in one iteration the generator failed for one target and a
   later target had its candidate accepted. *)
C9_Witness ==
    \E i, k \in 1..Len(events) :
        /\ i < k
        /\ events[i] = "generator failed"
        /\ events[k] = "accepted"

(* C10: a judge call whose oracle call fails returns overall_score 5.0
   with feedback ["Error in evaluation"]; the candidate is rejected and the
   loop goes on with the next target. *)
C10_JudgeFailureRejects ==
    [][(judge_calls' = judge_calls + 1 /\ oracle' = <<"judge", "raise">>)
          => /\ judgment'[1].overall_score = Five
             /\ judgment'[1].feedback = <<"Error in evaluation">>
             /\ pc' = "target"
             /\ idx' = idx + 1
             /\ UNCHANGED <<iteration, target_units, test_cases,
                            generated_tests, test_files, improvements_made>>]_vars

(* C10 witness: in one iteration the judge failed for one target and a
   later target was generated for and judged. *)
C10_Witness ==
    \E i, k \in 1..Len(events) :
        /\ i < k
        /\ events[i] = "judge failed"
        /\ events[k] \in {"accepted", "rejected"}

----------------------------------------------------------------------------
(* TestingFramework.run_full_audit: src/src/framework.py lines 82-145 *)

RatLt(a, b) == a.num * b.den < b.num * a.den

(* Catalogs map_codebase can return for a source tree: no source file,
   src/m1.py with the function a on line 1, and with b on line 4 as well. *)
AuditCatalogs ==
    {<<>>,
     <<CodeUnit("a", "src/m1.py", 1)>>,
     <<CodeUnit("a", "src/m1.py", 1), CodeUnit("b", "src/m1.py", 4)>>}

(* The clarity oracle during an audit: the call fails or answers 8. *)
AuditClarityAnswers ==
    {[kind |-> "raise", val |-> 0], [kind |-> "number", val |-> 8000]}

(* Test cases _parse_test_file builds, for the test files
       def test_x():                      def test_y():
           """doc"""                          pass
           if mock(): assert_(assert_(assert_(assert_(assert_(1)))))
   tested_units is never filled, the type is UNIT for these names, the
   complexity is at least 1, the source is ast.unparse of the function,
   line by line. *)

DiscoveredTests ==
    {TestCase("test_x", "unit", "tests/test_x.py", 1, 3, {}, 5, 1, 2, "doc",
              <<"def test_x():", "\n", "    \"\"\"doc\"\"\"", "\n",
                "    if mock():", "\n",
                "        assert_(assert_(assert_(assert_(assert_(1)))))">>),
     TestCase("test_y", "unit", "tests/test_y.py", 1, 2, {}, 0, 0, 1, None,
              <<"def test_y():", "\n", "    pass">>)}

(* MutationResults as _parse_mutmut_results builds them; a failed
   mutation run gives the defaults MutationResults(0, 0). *)
MutationResults(killed, survived) ==
    [total_mutations |-> killed + survived,
     killed_mutations |-> killed,
     survived_mutations |-> survived,
     mutation_score |->
         IF killed + survived = 0 THEN Zero
         ELSE Rat(killed * 100, killed + survived)]

(* The results of a mutation run: the defaults when the run fails, or
   the counts parsed from the output of the tool. *)
MutationOutcomes == {MutationResults(0, 0), MutationResults(1, 1)}

_run_mutation_testing(run) ==
    IF run THEN {<<m>> : m \in MutationOutcomes} ELSE {<<>>}

(* Call of run_full_audit(generate_tests, run_mutation_testing,
   max_iterations) on a constructed framework and stage 1, the mapping of
   the codebase. *)
MapCodebase ==
    /\ pc = "constructed"
    /\ stage = "idle"
    /\ UNCHANGED cliVars
    /\ audit_args' \in
           {<<[generate_tests |-> g, run_mutation_testing |-> r,
               max_iterations |-> n]>> :
                g \in BOOLEAN, r \in BOOLEAN, n \in 0..MaxAuditIter}
    /\ code_units' \in AuditCatalogs
    /\ stage' = "mapped"
    /\ pc' = "audit"
    /\ UNCHANGED <<test_cases, metrics>>
    /\ UNCHANGED loopVars
    /\ UNCHANGED <<before_metrics, after_metrics, before_mutation,
                   after_mutation, audit_report, reports, assessed>>

(* Stage 2: test discovery. *)
DiscoverTests ==
    /\ stage = "mapped"
    /\ UNCHANGED cliVars
    /\ test_cases' \in DistinctSeqsUpTo(DiscoveredTests, MaxInitTests)
    /\ stage' = "discovered"
    /\ UNCHANGED <<code_units, metrics, pc>>
    /\ UNCHANGED loopVars
    /\ UNCHANGED <<audit_args, before_metrics, after_metrics, before_mutation,
                   after_mutation, audit_report, reports, assessed>>

(* Stages 3 and 4: the initial assessment and mutation run. *)
AssessBefore ==
    /\ stage = "discovered"
    /\ UNCHANGED cliVars
    /\ \E answers \in [1..Len(test_cases) -> AuditClarityAnswers] :
           before_metrics' = <<assess_quality(code_units, test_cases, answers)>>
    /\ before_mutation' \in
           _run_mutation_testing(audit_args[1].run_mutation_testing)
    /\ assessed' = Append(assessed, test_cases)
    /\ stage' = "assessed_before"
    /\ UNCHANGED <<code_units, test_cases, metrics, pc>>
    /\ UNCHANGED loopVars
    /\ UNCHANGED <<audit_args, after_metrics, after_mutation, audit_report,
                   reports>>

(* Stage 5: the call of _improve_tests_iteratively(max_iterations) when
   generate_tests is set. *)
ImproveTests ==
    /\ stage = "assessed_before"
    /\ UNCHANGED cliVars
    /\ stage' = "improving"
    /\ IF audit_args[1].generate_tests
       THEN /\ max_iterations' = audit_args[1].max_iterations
            /\ iteration' = 0
            /\ pc' = "select"
       ELSE /\ pc' = "done"
            /\ UNCHANGED <<max_iterations, iteration>>
    /\ UNCHANGED <<code_units, test_cases, generated_tests, test_files, metrics,
                   target_units, idx, improvements_made, new_tests, judgment,
                   compensated, events, started, improved, gen_calls, judge_calls,
                   oracle>>
    /\ UNCHANGED <<audit_args, before_metrics, after_metrics, before_mutation,
                   after_mutation, audit_report, reports, assessed>>

(* Stages 6 and 7: the final assessment and mutation run. The locals of
   the returned _improve_tests_iteratively call are gone. *)
AssessAfter ==
    /\ stage = "improving"
    /\ UNCHANGED cliVars
    /\ pc = "done"
    /\ \E answers \in [1..Len(test_cases) -> AuditClarityAnswers] :
           after_metrics' = <<assess_quality(code_units, test_cases, answers)>>
    /\ after_mutation' \in
           _run_mutation_testing(audit_args[1].run_mutation_testing)
    /\ assessed' = Append(assessed, test_cases)
    /\ stage' = "assessed_after"
    /\ target_units' = <<>>
    /\ idx' = 0
    /\ improvements_made' = FALSE
    /\ new_tests' = <<>>
    /\ judgment' = <<>>
    /\ events' = <<>>
    /\ oracle' = <<>>
    /\ max_iterations' = 0
    /\ iteration' = 0
    /\ UNCHANGED <<code_units, test_cases, metrics, pc, generated_tests,
                   test_files, compensated, started, improved, gen_calls,
                   judge_calls>>
    /\ UNCHANGED <<audit_args, before_metrics, before_mutation, audit_report,
                   reports>>

(* The float assess_quality stores in coverage_percentage,
   (len(covered_units) / len(code_units)) * 100 or the int 0, from the
   pair [len(covered_units) * 100, len(code_units)] the metrics keep. *)
CoverageFloat(coverage_percentage) ==
    FMulSmall(FloatOfRatio(coverage_percentage.num \div 100,
                           coverage_percentage.den), 100)

(* coverage_delta = after.coverage_percentage - before.coverage_percentage
   in float arithmetic: whether it is > 0, and the number the format
   {:.1f} shows for it, in tenths. *)
FloatDelta(before, after) ==
    LET coverage_delta == FSub(CoverageFloat(after), CoverageFloat(before))
    IN  [positive |-> FLt(FloatZero, coverage_delta),
         tenths |-> FormatTenths(coverage_delta)]

(* The deltas of the coverage percentages of the catalogs and test sets
   of the specifications, computed once. *)
KnownDeltas ==
    LET CoverageValues ==
            {Zero} \cup {Rat(k * 100, n) : k \in 0..(MaxUnits + 1),
                                          n \in 1..MaxUnits}
    IN  [p \in {<<before, after>> : before, after \in CoverageValues} |->
            FloatDelta(p[1], p[2])]

CoverageDelta(before, after) ==
    IF <<before, after>> \in DOMAIN KnownDeltas
    THEN KnownDeltas[<<before, after>>]
    ELSE FloatDelta(before, after)

ImprovementList(coverage_delta, tests_added) ==
    (IF coverage_delta.positive
     THEN <<[text |-> "Coverage improved by", value |-> coverage_delta.tenths]>>
     ELSE <<>>)
    \o (IF tests_added > 0
        THEN <<[text |-> "Added new test cases", value |-> tests_added]>>
        ELSE <<>>)

(* The improvements list of _generate_audit_report. *)
Improvements(before, after) ==
    IF before # <<>> /\ after # <<>>
    THEN ImprovementList(CoverageDelta(before[1].coverage_percentage,
                                       after[1].coverage_percentage),
                         after[1].total_tests - before[1].total_tests)
    ELSE <<>>

(* The recommendations list of _generate_audit_report. *)
Recommendations(after) ==
    IF after # <<>>
    THEN (IF RatLt(after[1].coverage_percentage, Rat(80, 1))
          THEN <<"Increase test coverage to at least 80%">> ELSE <<>>)
         \o (IF RatLt(after[1].mutation_score, Rat(70, 1))
             THEN <<"Improve mutation score by adding more comprehensive assertions">>
             ELSE <<>>)
         \o (IF RatLt(after[1].assertion_density, Rat(2, 1))
             THEN <<"Increase assertion density for better test effectiveness">>
             ELSE <<>>)
    ELSE <<>>

(* Mutant: the report does not list the generated tests. *)
_generate_audit_report_NoGenerated(before, after, before_mut, after_mut, generated) ==
    [before_metrics |-> before,
     after_metrics |-> after,
     before_mutation |-> before_mut,
     after_mutation |-> after_mut,
     improvements |-> Improvements(before, after),
     recommendations |-> Recommendations(after),
     generated_tests |-> <<>>,
     modified_tests |-> <<>>]

(* Mutant: the report is built without the final metrics. *)
_generate_audit_report_NoAfter(before, after, before_mut, after_mut, generated) ==
    [before_metrics |-> before,
     after_metrics |-> <<>>,
     before_mutation |-> before_mut,
     after_mutation |-> after_mut,
     improvements |-> <<>>,
     recommendations |-> <<>>,
     generated_tests |-> generated,
     modified_tests |-> <<>>]

_generate_audit_report(before, after, before_mut, after_mut, generated) ==
    [before_metrics |-> before,
     after_metrics |-> after,
     before_mutation |-> before_mut,
     after_mutation |-> after_mut,
     improvements |-> Improvements(before, after),
     recommendations |-> Recommendations(after),
     generated_tests |-> generated,
     modified_tests |-> <<>>]

(* AuditReport.get_improvement_summary, the entries the data file keeps
   apart from the float deltas. *)
get_improvement_summary(report) ==
    IF report.before_metrics = <<>> \/ report.after_metrics = <<>>
    THEN <<>>
    ELSE <<[tests_added |->
                report.after_metrics[1].total_tests
                - report.before_metrics[1].total_tests,
            assertions_added |->
                report.after_metrics[1].total_assertions
                - report.before_metrics[1].total_assertions]>>

(* One answer of the oracle to the report prompt. *)
ReportAnswers == {[kind |-> "raise", text |-> ""], [kind |-> "text", text |-> "# Audit"]}

(* AuditReporterAgent.generate_report: the oracle's text, or the fallback
   report built from the data when the call fails. *)
generate_report(report, answer) ==
    IF answer.kind = "raise"
    THEN [source |-> "fallback", generated |-> Len(report.generated_tests)]
    ELSE [source |-> "oracle", generated |-> 0]

(* datetime.now().strftime("%Y%m%d_%H%M%S") at two seconds. *)
Timestamps == {"20240101_120000", "20240101_120001"}

MarkdownFile(timestamp) == "audit_report_" \o timestamp \o ".md"

JsonFile(timestamp) == "audit_data_" \o timestamp \o ".json"

ReportData(report) ==
    [improvements |-> get_improvement_summary(report),
     recommendations |-> report.recommendations,
     generated_tests_count |-> Len(report.generated_tests),
     modified_tests_count |-> Len(report.modified_tests)]

(* The reports directory after _save_audit_report at the given second:
   the two files carry the timestamp in their names, so only a report of
   the same second is overwritten. *)
_save_audit_report(files, report, answer, timestamp) ==
    WriteFile(WriteFile(files, MarkdownFile(timestamp),
                        generate_report(report, answer)),
              JsonFile(timestamp), ReportData(report))

(* The reports directories a _save_audit_report that raises can leave:
   the failure is at the open or the write of the first or of the second
   file. A file whose write stopped short holds [part |-> Torn], some
   proper prefix of its text. *)
_save_audit_report_raises(files, report, answer, timestamp) ==
    LET first == WriteFile(files, MarkdownFile(timestamp),
                           generate_report(report, answer))
    IN  {files,
         WriteFile(files, MarkdownFile(timestamp), [part |-> Torn]),
         first,
         WriteFile(first, JsonFile(timestamp), [part |-> Torn])}

(* Stage 8: the report is built, saved and returned. A failed write of a
   report file raises out of run_full_audit. *)
GenerateReport ==
    /\ stage = "assessed_after"
    /\ pc = "done"
    /\ UNCHANGED cliVars
    /\ \E answer \in ReportAnswers, timestamp \in Timestamps,
          written \in BOOLEAN :
         LET report == _generate_audit_report(before_metrics, after_metrics,
                                              before_mutation, after_mutation,
                                              generated_tests)
         IN  IF written
             THEN /\ reports' = _save_audit_report(reports, report, answer,
                                                   timestamp)
                  /\ audit_report' = <<report>>
                  /\ stage' = "returned"
                  /\ UNCHANGED pc
             ELSE /\ pc' = "raised"
                  /\ reports' \in _save_audit_report_raises(reports, report,
                                                            answer, timestamp)
                  /\ UNCHANGED <<audit_report, stage>>
    /\ UNCHANGED <<code_units, test_cases, metrics>>
    /\ UNCHANGED loopVars
    /\ UNCHANGED <<audit_args, before_metrics, after_metrics, before_mutation,
                   after_mutation, assessed>>

NextAudit ==
    \/ MapCodebase
    \/ DiscoverTests
    \/ AssessBefore
    \/ ImproveTests
    \/ SelectTargets
    \/ NextTarget
    \/ JudgeCandidate
    \/ EndIteration
    \/ AssessAfter
    \/ GenerateReport

SpecAudit == Init /\ [][NextAudit]_vars

----------------------------------------------------------------------------
(* Exceptions and the improvement loop *)

(* C11: no exception raised while a target is handled (generation, judging,
   persisting the accepted test) leaves the improvement loop: the loop is
   never left by a raise, and a step that fails for a target leaves the
   loop at its next target with nothing accepted. *)
C11_NoExceptionEscapes ==
    pc # "raised"

----------------------------------------------------------------------------
(* Properties of run_full_audit *)

Returned == stage = "returned"

InAudit == stage \notin {"idle", "returned"}

StagesLeft ==
    CASE stage = "mapped" -> 5
      [] stage = "discovered" -> 4
      [] stage = "assessed_before" -> 3
      [] stage = "improving" -> 2
      [] stage = "assessed_after" -> 1
      [] OTHER -> 0

(* An upper bound of the number of steps run_full_audit still takes. *)
AuditStepsLeft ==
    StagesLeft * (2 + audit_args[1].max_iterations * StepsPerIteration)
    + (IF stage = "improving" THEN StepsLeft ELSE 0)

(* C12: run_full_audit always ends by returning an AuditReport whose
   before_metrics and after_metrics are both set, whatever the oracle
   answers or fails to answer; before_metrics is computed before the loop
   touches the working test set, after_metrics after the loop is done. *)
C12_AuditAlwaysReports ==
    /\ [](Returned =>
            /\ audit_report # <<>>
            /\ audit_report[1].before_metrics # <<>>
            /\ audit_report[1].after_metrics # <<>>
            /\ audit_report[1].before_metrics = before_metrics
            /\ audit_report[1].after_metrics = after_metrics
            /\ before_metrics[1].total_tests + Len(generated_tests)
                   = after_metrics[1].total_tests
            /\ assessed[1] \o generated_tests = test_cases
            /\ assessed[2] = test_cases)
    /\ [](InAudit => pc # "raised" /\ ENABLED NextAudit)
    /\ [](started > 0 => before_metrics # <<>>)
    /\ [][InAudit =>
            /\ AuditStepsLeft' < AuditStepsLeft
            /\ (before_metrics' # before_metrics =>
                    started = 0 /\ generated_tests = <<>> /\ pc = "audit")
            /\ (after_metrics' # after_metrics => pc = "done")]_vars

(* The fields of QualityMetrics that do not come from the oracle agree. *)
SameDeterministicFields(m1, m2) ==
    /\ RatEq(m1.coverage_percentage, m2.coverage_percentage)
    /\ m1.total_tests = m2.total_tests
    /\ m1.total_assertions = m2.total_assertions
    /\ m1.total_mocks = m2.total_mocks
    /\ RatEq(m1.assertion_density, m2.assertion_density)
    /\ RatEq(m1.mock_coverage, m2.mock_coverage)
    /\ RatEq(m1.complexity_score, m2.complexity_score)
    /\ m1.uncovered_units = m2.uncovered_units
    /\ m1.low_quality_tests = m2.low_quality_tests

(* C13: when an audit accepts no generated test, the final assessment sees
   the same working test set as the initial one and after_metrics equals
   before_metrics in every field that does not come from the oracle. *)
C13_NoAcceptanceSameMetrics ==
    (after_metrics # <<>> /\ generated_tests = <<>>) =>
        /\ assessed[1] = assessed[2]
        /\ test_cases = assessed[1]
        /\ SameDeterministicFields(before_metrics[1], after_metrics[1])
        /\ Returned =>
               SameDeterministicFields(audit_report[1].before_metrics[1],
                                       audit_report[1].after_metrics[1])

(* C13 witness: an audit has returned after a loop that judged and
   rejected a candidate; the oracle scored the clarity of the unchanged
   tests differently in the two assessments. *)
C13_Witness ==
    /\ Returned
    /\ generated_tests = <<>>
    /\ gen_calls >= 1 /\ judge_calls >= 1
    /\ before_metrics[1].total_tests >= 1
    /\ ~RatEq(before_metrics[1].test_clarity_score,
              after_metrics[1].test_clarity_score)

----------------------------------------------------------------------------
(* Properties of assess_quality as a function of (U, T) *)

(* The flag of the claim: one of the four conditions holds of the test. *)
Flagged(test) ==
    \/ test.assertions = 0
    \/ test.complexity > 5
    \/ test.docstring \in {None, ""}
    \/ (test.assertions > 0 /\ test.mocks = 0)

FlaggedAt(tests) == {j \in 1..Len(tests) : Flagged(tests[j])}

(* The position in tests of the k-th flagged test. *)
KthFlagged(tests, k) ==
    CHOOSE j \in FlaggedAt(tests) :
        Cardinality({i \in FlaggedAt(tests) : i <= j}) = k

(* C14: low_quality_tests has exactly one entry for every test with zero
   assertions, complexity > 5, no docstring, or assertions > 0 and no
   mocks, in list order, and none for any other test; the entry of a test
   with zero assertions names "no assertions", the entry of a test with
   assertions and no mocks names "no mocking". *)
C14_LowQualityFlag ==
    Assessed =>
        LET low == Result.low_quality_tests
        IN  /\ Len(low) = Cardinality(FlaggedAt(test_cases))
            /\ \A k \in 1..Len(low) :
                   LET test == test_cases[KthFlagged(test_cases, k)]
                   IN  /\ low[k].name = test.name
                       /\ low[k].issues # <<>>
                       /\ ("no assertions" \in Range(low[k].issues)
                              <=> test.assertions = 0)
                       /\ ("no mocking" \in Range(low[k].issues)
                              <=> (test.assertions > 0 /\ test.mocks = 0))
                       /\ ("high complexity" \in Range(low[k].issues)
                              <=> test.complexity > 5)
                       /\ ("no documentation" \in Range(low[k].issues)
                              <=> test.docstring \in {None, ""})

(* C14 witness: an assessment of a test flagged only for its missing
   docstring followed by a test with 5 assertions, 1 mock, complexity 2 and
   a docstring, which is not flagged. *)
C14_Witness ==
    /\ Assessed
    /\ Len(test_cases) = 2
    /\ test_cases[1].docstring = None /\ test_cases[1].assertions = 5
    /\ test_cases[1].mocks = 1
    /\ test_cases[2].assertions = 5 /\ test_cases[2].mocks = 1
    /\ test_cases[2].complexity = 2 /\ test_cases[2].docstring = "doc"
    /\ Len(Result.low_quality_tests) = 1
    /\ Result.low_quality_tests[1].issues = <<"no documentation">>

----------------------------------------------------------------------------
(* Two calls of assess_quality on the same (U, T) *)

TwiceTests ==
    {TestCase("test_x", "unit", "tests/test_x.py", 1, 3, {"a", "z"}, 5, 1, 2, "doc", <<"x">>),
     TestCase("test_y", "unit", "tests/test_y.py", 1, 3, {}, 0, 0, 1, None, <<"x">>),
     TestCase("test_y", "unit", "tests/test_y.py", 1, 3, {"b"}, 5, 0, 6, "doc", NoneCode)}

InitTwice ==
    /\ AuditIdle
    /\ CliIdle
    /\ code_units \in AuditCatalogs
    /\ test_cases \in SeqsUpTo(TwiceTests, MaxTests)
    /\ metrics = <<>>
    /\ pc = "assess"
    /\ LoopIdle

(* A call of assess_quality(code_units, test_cases) that keeps the results
   of the calls made so far; oracle holds the answers of the last call. *)
AssessOnceMore ==
    /\ pc \in {"assess", "assessed"}
    /\ UNCHANGED auditVars
    /\ UNCHANGED cliVars
    /\ \E answers \in [1..Len(test_cases) -> ClarityAnswers] :
           /\ metrics' = Append(metrics,
                                assess_quality(code_units, test_cases, answers))
           /\ oracle' = IF oracle = <<>> \/ oracle = <<"same", answers>>
                        THEN <<"same", answers>>
                        ELSE <<"other", answers>>
    /\ pc' = IF pc = "assess" THEN "assessed" ELSE "reassessed"
    /\ UNCHANGED <<code_units, test_cases, generated_tests, test_files,
                   max_iterations, iteration, target_units, idx,
                   improvements_made, new_tests, judgment, compensated, events,
                   started, improved, gen_calls, judge_calls>>

NextTwice == AssessOnceMore

SpecTwice == InitTwice /\ [][NextTwice]_vars

----------------------------------------------------------------------------
(* One iteration of the improvement loop with more targets than it
   handles: the units a, b, c are uncovered, the only test lists d, e and
   the stale name z and has no assertion. *)

CapUnits ==
    <<CodeUnit("a", "src/m1.py", 1), CodeUnit("b", "src/m1.py", 5),
      CodeUnit("c", "src/m1.py", 9), CodeUnit("d", "src/m2.py", 1),
      CodeUnit("e", "src/m2.py", 5)>>

CapTests ==
    <<TestCase("test_x", "unit", "tests/test_x.py", 1, 3, {"d", "e", "z"}, 0, 0, 1,
               "doc", <<"x">>)>>

(* The state at the call _improve_tests_iteratively(1). *)
InitCap ==
    /\ AuditIdle
    /\ CliIdle
    /\ code_units = CapUnits
    /\ test_cases = CapTests
    /\ metrics = <<>>
    /\ pc = "select"
    /\ generated_tests = <<>>
    /\ test_files = {}
    /\ max_iterations = 1
    /\ iteration = 0
    /\ target_units = <<>>
    /\ idx = 0
    /\ improvements_made = FALSE
    /\ new_tests = <<>>
    /\ judgment = <<>>
    /\ compensated \in BOOLEAN
    /\ events = <<>>
    /\ started = 0
    /\ improved = 0
    /\ gen_calls = 0
    /\ judge_calls = 0
    /\ oracle = <<>>

NextCap ==
    \/ SelectTargets
    \/ NextTarget
    \/ JudgeCandidate
    \/ EndIteration

SpecCap == InitCap /\ [][NextCap]_vars

Found(unit_name) == \E i \in 1..Len(code_units) : code_units[i].name = unit_name

Listed(unit_name) ==
    \E j \in 1..Len(test_cases) : unit_name \in test_cases[j].tested_units

(* C16: an iteration handles the first 5 names of targets = uncovered
   names followed by low-quality names, one place each: every generator
   call is for the name at a position <= 5, a name that is no unit takes
   its place without a call, and the iteration ends after min(5,
   len(targets)) names. *)
C16_FirstFiveTargets ==
    /\ [](Len(events) <= 5 /\ gen_calls <= 5 * started)
    /\ [][(pc = "select" /\ pc' = "target") =>
             \E k \in 0..Len(target_units') :
                 /\ \A i \in 1..k :
                        Found(target_units'[i]) /\ ~Listed(target_units'[i])
                 /\ \A i \in (k + 1)..Len(target_units') :
                        Listed(target_units'[i])]_vars
    /\ [][gen_calls' # gen_calls =>
             /\ gen_calls' = gen_calls + 1
             /\ pc = "target" /\ idx <= 5 /\ idx <= Len(target_units)
             /\ Found(target_units[idx])
             /\ (new_tests' # <<>> =>
                    new_tests'[1].tested_units = {target_units[idx]})]_vars
    /\ [][(pc = "target" /\ idx <= 5 /\ idx <= Len(target_units)
              /\ ~Found(target_units[idx])) =>
             /\ idx' = idx + 1
             /\ gen_calls' = gen_calls
             /\ events' = Append(events, "skipped")]_vars
    /\ [][(pc = "target" /\ pc' \in {"done", "select"}) =>
             Len(events) = Min(5, Len(target_units))]_vars

(* C16 witness: an iteration with 6 targets is over after 5 of them: the
   stale name took one of the 5 places, 4 generator calls were made and
   the unit at position 6 got none. *)
C16_Witness ==
    /\ pc = "done"
    /\ Len(target_units) = 6
    /\ Len(events) = 5
    /\ \E i \in 1..5 : events[i] = "skipped" /\ target_units[i] = "z"
    /\ gen_calls = 4
    /\ Found(target_units[6])

----------------------------------------------------------------------------
(* Properties of the working test set *)

(* C17: the working test set never holds two tests with the same identity
   triple (name, file path, start line). *)
C17_NoDuplicateTriple ==
    \A i, j \in 1..Len(test_cases) :
        i # j => TestKey(test_cases[i]) # TestKey(test_cases[j])

(* C18: every test of the working test set has complexity >= 1. *)
C18_ComplexityAtLeastOne ==
    \A i \in 1..Len(test_cases) : test_cases[i].complexity >= 1

----------------------------------------------------------------------------
(* The clarity score as an average over the sampled tests *)

(* The positions of the first at most 10 tests that have source code. *)
Sampled(tests) ==
    {i \in 1..Len(tests) :
        /\ Truthy(tests[i].source_code)
        /\ Cardinality({j \in 1..i : Truthy(tests[j].source_code)}) <= 10}

(* What the test at position i adds: the oracle's number clamped to
   [0, 10], or 5.0 when the call or the parse failed. *)
Contribution(answer) ==
    IF answer.kind = "number"
    THEN (IF answer.val < 0 THEN 0
          ELSE IF answer.val > 10000 THEN 10000 ELSE answer.val)
    ELSE 5000

RECURSIVE SumOver(_, _)
SumOver(S, answers) ==
    IF S = {} THEN 0
    ELSE LET i == CHOOSE i \in S : TRUE
         IN  Contribution(answers[i]) + SumOver(S \ {i}, answers)

(* C19: test_clarity_score is the sum of what the sampled tests add
   divided by the number of sampled tests, and 0.0 when there are no
   tests; a test without source code is not sampled and does not count in
   the divisor. *)
C19_ClarityAveragesSampled ==
    (pc \in {"assessed", "reassessed"}) =>
        LET score == metrics[Len(metrics)].test_clarity_score
            answers == oracle[2]
            sampled == Sampled(test_cases)
        IN  /\ (test_cases = <<>> => RatEq(score, Zero))
            /\ (sampled # {} =>
                   RatEq(score, Rat(SumOver(sampled, answers),
                                    Cardinality(sampled))))

----------------------------------------------------------------------------
(* Target selection *)

(* The sum of field over the working tests that list unit_name. *)
RECURSIVE TotalOf(_, _, _)
TotalOf(unit_name, field, k) ==
    IF k = 0 THEN 0
    ELSE TotalOf(unit_name, field, k - 1)
         + (IF unit_name \in test_cases[k].tested_units
            THEN test_cases[k][field] ELSE 0)

(* C20: at target selection the names after the uncovered ones are exactly
   the names that some working test lists and whose tests have, in total,
   fewer than 3 assertions or no mock. *)
C20_LowQualityUnits ==
    [][(pc = "select" /\ started' = started + 1) =>
          \A n \in AllNames :
              (n \in Range(target_units') /\ Listed(n))
                  <=> /\ Listed(n)
                      /\ \/ TotalOf(n, "assertions", Len(test_cases)) < 3
                         \/ TotalOf(n, "mocks", Len(test_cases)) < 1]_vars

(* C20 witness: targets were selected while unit a was listed by two
   tests, one of them with no assertion and no mock, that together have 3
   assertions and 1 mock, so a is no target; the uncovered b is. *)
C20_Witness ==
    /\ pc = "target" /\ idx = 1 /\ events = <<>>
    /\ Len(test_cases) = 2
    /\ "a" \in test_cases[1].tested_units /\ "a" \in test_cases[2].tested_units
    /\ test_cases[1].assertions = 0 /\ test_cases[1].mocks = 0
    /\ test_cases[2].assertions = 3 /\ test_cases[2].mocks = 1
    /\ target_units = <<"b">>

----------------------------------------------------------------------------
(* The targets of one iteration *)

Weak(unit_name) ==
    \/ TotalOf(unit_name, "assertions", Len(test_cases)) < 3
    \/ TotalOf(unit_name, "mocks", Len(test_cases)) < 1

(* C21: the target list of an iteration is computed once, at the start of
   the iteration, from the working test set of that moment (the unit names
   no test lists and the listed names whose tests are weak); no later step
   of the iteration changes it, an acceptance in particular leaves the list
   and the iteration as they are. *)
C21_TargetsComputedOnce ==
    /\ [][target_units' # target_units =>
             (pc = "select" /\ started' = started + 1)]_vars
    /\ [][generated_tests' # generated_tests =>
             (target_units' = target_units /\ iteration' = iteration
              /\ started' = started)]_vars
    /\ [][(pc = "select" /\ started' = started + 1) =>
             Range(target_units') =
                 {n \in AllNames : Found(n) /\ ~Listed(n)}
                 \cup {n \in AllNames : Listed(n) /\ Weak(n)}]_vars

(* C21 witness: the candidate of the first of two targets was accepted, so
   that unit is no longer uncovered, and the list still holds both names
   with the second one up next. *)
C21_Witness ==
    /\ pc = "target" /\ idx = 2
    /\ Len(target_units) = 2
    /\ events = <<"accepted">>
    /\ target_units[1] \notin _identify_uncovered_units(code_units, test_cases)
    /\ target_units[1] \notin _identify_low_quality_units(test_cases)
    /\ target_units[2] \in _identify_uncovered_units(code_units, test_cases)

----------------------------------------------------------------------------
(* What the improvement loop writes *)

(* C22: a step of the improvement loop leaves the list of code units as it
   is, and it leaves the working test set as it is or appends one test to
   it: the candidate it has just judged at 7.0 or more. No test already in
   the working test set is removed, replaced or altered. *)
C22_LoopOnlyAppends ==
    [][InLoop =>
          /\ code_units' = code_units
          /\ \/ test_cases' = test_cases
             \/ /\ pc = "judge"
                /\ test_cases' = Append(test_cases, Head(new_tests))
                /\ generated_tests' = Append(generated_tests, Head(new_tests))
                /\ AtLeastSeven(judgment'[1].overall_score)]_vars

(* C22 witness: the loop is done after accepting, in two iterations, two
   tests of one identity triple; both are in the working test set behind
   the test the loop started with. *)
C22_Witness ==
    /\ pc = "done"
    /\ Len(test_cases) = 3
    /\ test_cases[1] \in LoopTests
    /\ Len(generated_tests) = 2
    /\ TestKey(test_cases[2]) = TestKey(test_cases[3])
    /\ <<test_cases[2], test_cases[3]>> = generated_tests

----------------------------------------------------------------------------
(* Targets that are no code unit *)

(* C23: the lookup of a name gives None (and no raise) exactly when no
   code unit has that name; a target whose name matches no code unit is
   passed over: no generator call, no judge call, nothing else changed,
   and the loop is at the next target of the iteration. *)
C23_StaleTargetSkipped ==
    /\ [](\A n \in AllNames :
             (_find_code_unit(code_units, n) = <<>>) <=> ~Found(n))
    /\ [][(pc = "target" /\ idx <= Targeted /\ ~Found(target_units[idx])) =>
             /\ pc' = "target"
             /\ idx' = idx + 1
             /\ gen_calls' = gen_calls
             /\ judge_calls' = judge_calls
             /\ UNCHANGED <<code_units, test_cases, generated_tests,
                            test_files, improvements_made, target_units,
                            iteration, new_tests>>]_vars

(* C23 witness: in one iteration the name z, which a test lists and no
   unit has, was passed over and the target after it was generated for and
   judged. *)
C23_Witness ==
    \E i, k \in 1..Len(events) :
        /\ i < k
        /\ events[i] = "skipped"
        /\ target_units[i] = "z"
        /\ events[k] \in {"accepted", "rejected"}

----------------------------------------------------------------------------
(* The result of a generator call *)

(* C24: every call of generate_tests for a code unit returns the empty
   list or a list of exactly one TestCase whose tested_units is the
   one-element set of that unit's name and whose type is UNIT. *)
C24_GeneratesAtMostOne ==
    [][gen_calls' = gen_calls + 1 =>
          LET unit == _find_code_unit(code_units, target_units[idx])[1]
          IN  \/ new_tests' = <<>>
              \/ /\ Len(new_tests') = 1
                 /\ new_tests'[1].tested_units = {unit.name}
                 /\ Cardinality(new_tests'[1].tested_units) = 1
                 /\ new_tests'[1].type = "unit"]_vars

(* C24 witness: in one iteration a generator call whose answer held no
   code returned the empty list, and the call for the unit b has returned
   one test. *)
C24_Witness ==
    /\ pc = "judge"
    /\ Len(new_tests) = 1
    /\ new_tests[1].tested_units = {"b"}
    /\ \E i \in 1..Len(events) : events[i] = "no code"

----------------------------------------------------------------------------
(* The CLI command generate: src/src/cli.py lines 124-170 *)

CliLimit == 10

(* The body of `for unit_name in list(uncovered_units)[:10]` for the names
   in order: lookup, generator, judge, save of an accepted test; acc holds
   the tests directory and the counts so far. The value is the set of the
   ways the loop can end: after the last name, or aborted by a save that
   raised, with the tests directory that save left. *)
RECURSIVE GenerateEach(_, _, _, _, _)
GenerateEach(names, units, gen_answers, judge_answers, acc) ==
    IF names = <<>> THEN {acc}
    ELSE LET unit == _find_code_unit(units, Head(names))
             new == IF unit = <<>> THEN <<>>
                    ELSE generate_tests(unit[1], Head(gen_answers))
             accepted == new # <<>> /\ MeetsThreshold(Judged[<<Head(judge_answers), compensated>>])
             called == [acc EXCEPT
                           !.gen_calls = @ + (IF unit # <<>> THEN 1 ELSE 0),
                           !.judge_calls = @ + (IF new # <<>> THEN 1 ELSE 0)]
         IN  IF accepted
             THEN GenerateEach(Tail(names), units, Tail(gen_answers),
                               Tail(judge_answers),
                      [called EXCEPT
                           !.test_files = _save_test_case(@, new[1]),
                           !.generated_count = @ + 1])
                  \cup {[called EXCEPT !.test_files = files, !.aborted = TRUE] :
                            files \in _save_test_case_raises(acc.test_files, new[1])}
             ELSE GenerateEach(Tail(names), units, Tail(gen_answers),
                               Tail(judge_answers), called)

(* generate constructs a framework and maps the codebase into its local
   code_units (lines 133-137). *)
CliMap ==
    /\ pc = "constructed"
    /\ stage = "idle"
    /\ local_code_units' \in
           {units \in DistinctSeqsUpTo(CodeUnits, MaxUnits) : WalkOrder(units)}
    /\ pc' = "cli_mapped"
    /\ UNCHANGED <<code_units, test_cases, metrics>>
    /\ UNCHANGED loopVars
    /\ UNCHANGED auditVars
    /\ UNCHANGED <<local_test_cases, uncovered_units, generated_count>>

(* The discovery of the existing tests into the local test_cases
   (line 141). *)
CliDiscover ==
    /\ pc = "cli_mapped"
    /\ local_test_cases' \in DistinctSeqsUpTo(DiscoveredTests, MaxTests)
    /\ pc' = "cli_discovered"
    /\ UNCHANGED <<code_units, test_cases, metrics>>
    /\ UNCHANGED loopVars
    /\ UNCHANGED auditVars
    /\ UNCHANGED <<local_code_units, uncovered_units, generated_count>>

(* uncovered_units = framework._identify_uncovered_units() and the loop
   over its first 10 names (lines 144-166); the lookups read
   framework.code_units. An exception of the body ends the command with
   click.Abort (lines 168-170). *)
CliGenerate ==
    /\ pc = "cli_discovered"
    /\ uncovered_units' = _identify_uncovered_units(code_units, test_cases)
    /\ \E order \in ListOf(uncovered_units') :
         LET names == SubSeq(order, 1, Min(Len(order), CliLimit))
         IN  \E gen_answers \in [1..Len(names) -> GenAnswers],
                judge_answers \in [1..Len(names) -> JudgeAnswers] :
                 \E r \in GenerateEach(names, code_units, gen_answers,
                                       judge_answers,
                                       [test_files |-> test_files,
                                        generated_count |-> 0,
                                        gen_calls |-> gen_calls,
                                        judge_calls |-> judge_calls,
                                        aborted |-> FALSE]) :
                     /\ test_files' = r.test_files
                     /\ generated_count' = r.generated_count
                     /\ gen_calls' = r.gen_calls
                     /\ judge_calls' = r.judge_calls
                     /\ pc' = IF r.aborted THEN "cli_aborted" ELSE "cli_done"
    /\ UNCHANGED <<code_units, test_cases, metrics, generated_tests,
                   max_iterations, iteration, target_units, idx,
                   improvements_made, new_tests, judgment, compensated, events,
                   started, improved, oracle>>
    /\ UNCHANGED auditVars
    /\ UNCHANGED <<local_code_units, local_test_cases>>

NextCli ==
    \/ CliMap
    \/ CliDiscover
    \/ CliGenerate

SpecCli == Init /\ [][NextCli]_vars

(* C25: generate attempts generation for each of up to 10 mapped units
   that no discovered test covers: when it is done it has made one
   generator call for each of the first 10 such names, so at least one for
   a project with mapped units and no tests. *)
C25_GenerateCoversUncovered ==
    pc = "cli_done" =>
        /\ gen_calls =
               Min(CliLimit,
                   Cardinality(UnitNameSet(local_code_units)
                               \ CoveredUnits(local_test_cases)))
        /\ (local_code_units # <<>> /\ local_test_cases = <<>> => gen_calls >= 1)

----------------------------------------------------------------------------
(* No name is a target twice *)

NoRepetition(s) == \A i, j \in 1..Len(s) : i # j => s[i] # s[j]

(* C26: no name is both uncovered and low-quality, so the target list of
   an iteration holds no name twice; a generator call is for a name that
   no earlier place of the list of this iteration holds, and it returns at
   most one candidate for the judge; a judge call is for the one candidate
   of a place of the list that has no outcome yet and gives that place its
   outcome, and within an iteration the place and the outcomes never go
   back: so a unit gets at most one generator call and at most one judged
   candidate in an iteration. *)
C26_TargetsDisjoint ==
    /\ [](_identify_uncovered_units(code_units, test_cases)
            \cap _identify_low_quality_units(test_cases) = {})
    /\ [](NoRepetition(target_units))
    /\ [][gen_calls' = gen_calls + 1 =>
             /\ idx = Len(events) + 1
             /\ \A i \in 1..(idx - 1) : target_units[i] # target_units[idx]
             /\ Len(new_tests') <= 1]_vars
    /\ [][judge_calls' = judge_calls + 1 =>
             /\ idx = Len(events) + 1
             /\ Len(new_tests) = 1
             /\ Len(events') = idx]_vars
    /\ [][started' = started =>
             idx' >= idx /\ Len(events') >= Len(events)]_vars

(* C26 witness: an iteration whose targets were the uncovered unit b and
   the weakly tested unit a has made its two generator calls. *)
C26_Witness ==
    /\ started = 1
    /\ target_units = <<"b", "a">>
    /\ Found("a") /\ Found("b")
    /\ Len(events) = 2
    /\ gen_calls = 2

----------------------------------------------------------------------------
(* The generated tests of an audit *)

AfterDiscovery ==
    stage \in {"assessed_before", "improving", "assessed_after", "returned"}

(* C27: during an audit of a freshly constructed framework, from test
   discovery on, the working test set is the discovered tests followed by
   generated_tests, so its length is the number of discovered tests plus
   len(generated_tests); in the report returned, after_metrics.total_tests
   minus before_metrics.total_tests is the number of generated tests. *)
C27_GeneratedTestsAccount ==
    /\ [](stage = "discovered" => generated_tests = <<>>)
    /\ [][stage = "discovered" => assessed' = <<test_cases>>]_vars
    /\ [](AfterDiscovery =>
            /\ test_cases = assessed[1] \o generated_tests
            /\ Len(test_cases) = Len(assessed[1]) + Len(generated_tests))
    /\ [](Returned =>
            /\ audit_report[1].generated_tests = generated_tests
            /\ audit_report[1].after_metrics[1].total_tests
                   - audit_report[1].before_metrics[1].total_tests
                   = Len(audit_report[1].generated_tests))

(* C27 witness: an audit that discovered one test and accepted two
   generated tests has returned its report. *)
C27_Witness ==
    /\ Returned
    /\ Len(assessed[1]) = 1
    /\ Len(generated_tests) = 2
    /\ audit_report[1].before_metrics[1].total_tests = 1
    /\ audit_report[1].after_metrics[1].total_tests = 3

----------------------------------------------------------------------------
(* The uncovered set over the iterations *)

Uncovered == {n \in AllNames : Found(n) /\ ~Listed(n)}

(* The coverage_percentage an assessment of the current state returns. *)
CoverageNow ==
    assess_quality(code_units, test_cases,
                   [i \in 1..Len(test_cases) |-> [kind |-> "raise", val |-> 0]])
        .coverage_percentage

(* C28: no step of the loop adds a name to the uncovered set or lowers
   the coverage (a step either leaves the code units and the working test
   set as they are, or the uncovered set of the new state is a subset of
   the old one); the unit of an accepted test is not uncovered from then
   on, and the uncovered names an iteration targets are uncovered names of
   the state the iteration starts in, none of them the unit of a test
   accepted before. *)
C28_UncoveredNeverGrows ==
    /\ [][InLoop =>
             \/ (code_units' = code_units /\ test_cases' = test_cases)
             \/ /\ Uncovered' \subseteq Uncovered
                /\ RatLe(CoverageNow, CoverageNow')]_vars
    /\ [][generated_tests' # generated_tests =>
             /\ target_units[idx] \notin Uncovered'
             /\ Last(generated_tests').tested_units = {target_units[idx]}]_vars
    /\ [](\A i \in 1..Len(generated_tests) :
             \A n \in generated_tests[i].tested_units : Found(n) => Listed(n))
    /\ [][(pc = "select" /\ started' = started + 1) =>
             \A k \in 1..Len(target_units') :
                 ~Listed(target_units'[k]) =>
                     /\ Found(target_units'[k])
                     /\ \A i \in 1..Len(generated_tests) :
                            target_units'[k] \notin generated_tests[i].tested_units]_vars

(* C28 witness: the second iteration has selected its targets after the
   first one accepted a test for the uncovered unit a and none for b: b
   is the only uncovered target left. *)
C28_Witness ==
    /\ pc = "target" /\ idx = 1
    /\ started = 2
    /\ Len(generated_tests) = 1
    /\ generated_tests[1].tested_units = {"a"}
    /\ Uncovered = {"b"}
    /\ target_units[1] = "b"
    /\ test_cases = generated_tests

----------------------------------------------------------------------------
(* The order of persisting and adding an accepted test *)

(* C29: the file of an accepted test is written before the test is added:
   a step that adds a test to the working test set and to generated_tests
   has its file written, and a step whose write fails leaves the working
   test set, generated_tests and the improvement flag of the iteration as
   they were. *)
C29_PersistedBeforeAdded ==
    /\ [][generated_tests' # generated_tests =>
             /\ Persisted(test_files', Last(generated_tests'))
             /\ pc' # "raised"
             /\ improvements_made']_vars
    /\ [][pc' = "raised" =>
             /\ pc = "judge"
             /\ AtLeastSeven(judgment'[1].overall_score)
             /\ UNCHANGED <<test_cases, generated_tests, improvements_made>>]_vars

(* C29 witness: the write for the first accepted candidate of an
   iteration failed: the candidate is in neither collection and the flag
   of the iteration is not set. *)
C29_Witness ==
    /\ pc = "raised"
    /\ Last(events) = "write failed"
    /\ AtLeastSeven(judgment[1].overall_score)
    /\ generated_tests = <<>>
    /\ Head(new_tests) \notin Range(test_cases)
    /\ ~improvements_made

----------------------------------------------------------------------------
(* Agreement of the two coverage outputs *)

DistinctNames(units) ==
    \A i, j \in 1..Len(units) : i # j => units[i].name # units[j].name

OnlyUnitsListed(units, tests) ==
    \A j \in 1..Len(tests) :
        \A n \in tests[j].tested_units :
            \E i \in 1..Len(units) : units[i].name = n

(* C30: when the names of the units of U are pairwise distinct and every
   name a test lists is the name of a unit of U, then for non-empty U
   coverage_percentage = 100 * (|U| - |uncovered_units|) / |U|, and it is
   100 exactly when uncovered_units is empty. *)
C30_CoverageOutputsAgree ==
    (/\ Assessed
     /\ code_units # <<>>
     /\ DistinctNames(code_units)
     /\ OnlyUnitsListed(code_units, test_cases)) =>
        /\ RatEq(Result.coverage_percentage,
                 Rat(100 * (Len(code_units)
                            - Cardinality(Result.uncovered_units)),
                     Len(code_units)))
        /\ (RatEq(Result.coverage_percentage, Rat(100, 1))
               <=> Result.uncovered_units = {})

(* C30 witness: an assessment of the units a and b with two tests that
   both list a and nothing else: coverage 50, b uncovered. *)
C30_Witness ==
    /\ Assessed
    /\ Len(code_units) = 2
    /\ DistinctNames(code_units)
    /\ Len(test_cases) = 2
    /\ test_cases[1].tested_units = {"a"}
    /\ test_cases[2].tested_units = {"a"}
    /\ Result.uncovered_units = {"b"}
    /\ RatEq(Result.coverage_percentage, Rat(50, 1))

====
